---- MODULE Spec2Model ----
(***************************************************************************)
(* Election lifecycle and ballot engine of bot.py.                         *)
(*                                                                         *)
(* The durable store is four relations (elections, candidates, ballots,    *)
(* election_certifications).  Every slash command, button or modal         *)
(* callback is a coroutine that runs on one event loop; it yields at each  *)
(* `await pool.<statement>`, so handlers interleave at statement           *)
(* granularity and every single SQL statement is atomic.  A task of the    *)
(* model is one user session: it runs one handler at a time, and between   *)
(* handlers it may hold a VoteView, a ReviewView or a RejectModal.         *)
(*                                                                         *)
(* Spec runs the handlers of all tasks interleaved; SpecSeq runs one       *)
(* command at a time; SpecRecert is SpecSeq started from a store that was  *)
(* certified and reverted.  SpecTab draws the ballot table from every      *)
(* table of a bounded size and runs election_results on it; SpecPick draws *)
(* the values of a select interaction and runs the callback and the        *)
(* submission.                                                             *)
(* SpecQueue runs the review handlers of all tasks on a drawn ballot       *)
(* table; SpecCertify runs election_certify and SpecReport runs            *)
(* election_report on one.  SpecRefresh runs the steps of                  *)
(* post_or_edit_auto_update of all tasks against a clock; SpecPool runs    *)
(* ensure_db_pool of all tasks from a process without a pool.              *)
(* SpecRegister runs add_candidate of all tasks on a DRAFT election;       *)
(* SpecStats runs election_report while other sessions vote and review;    *)
(* SpecShow runs the review and certify handlers together with the         *)
(* post_or_edit_auto_update call that ends them.  SpecLive runs voting and *)
(* reviewing sessions under fairness: reviewers that keep asking for the   *)
(* next pending ballot and resolve what they are shown.                    *)
(***************************************************************************)
EXTENDS Integers, Sequences, FiniteSets, TLC

\* ---------------------------------------------------------------- bounds
NumTasks == 2
NumVoters == 1
MaxCandidates == 1
MaxTabBallots == 2
TickSeconds == 10
MaxClock == 40
MaxCreateCalls == 5
NumPickOptions == 5
MaxPickLen == 5

\* ------------------------------------------------------ program constants
HOUSE_MAX_PICKS == 3
SENATE_MAX_PICKS == 2
AUTO_UPDATE_MIN_SECONDS == 30
REJECT_REASON_MAX == 500

\* ------------------------------------------------------------ input sets
Tasks == 1..NumTasks
Voters == 1..NumVoters
ElectionIds == {"E1"}
Offices == {"HOUSE", "SENATE", "PRESIDENT"}
STATE_CODES == {"TX"}
Reasons == {"late"}
Notes == {"NULL"}
RevertReasons == {"recount"}
\* SQL NULL of an integer column (ids start at 1) and of a text column
NoId == 0
NoDistrict == -1
NoText == "NULL"

\* begin_election arguments: (election_type, include_house, include_senate, include_pres)
CreateInputs ==
    { <<"GENERAL", TRUE, FALSE, FALSE>>,
      <<"MIDTERMS", FALSE, TRUE, FALSE>>,
      <<"SPECIAL", FALSE, FALSE, TRUE>> }

\* add_candidate arguments: (office, rp_name, party, state, district)
CandidateInputs ==
    { <<"HOUSE", "A", "DEM", "TX", 1>>,
      <<"HOUSE", "B", "REP", "TX", 1>>,
      <<"SENATE", "A", "DEM", "TX", 1>>,
      <<"PRESIDENT", "B", "REP", "NULL", -1>>,
      <<"HOUSE", "A", "DEM", "ZZ", 1>>,
      <<"HOUSE", "B", "REP", "TX", 0>>,
      <<"SENATE", "B", "REP", "NULL", -1>>,
      <<"SENATE", "A", "DEM", " tx", 7>> }

VARIABLES
    elections,       \* election_id -> row          (table elections)
    candidates,      \* sequence of rows, candidate_id = index (SERIAL)
    ballots,         \* sequence of rows, ballot_id = index (BIGSERIAL), in submission order
    certifications,  \* election_id -> snapshot row (table election_certifications)
    pc,              \* task -> position of its coroutine
    local,           \* task -> the coroutine's local variables / the view's fields
    resp,            \* the message the last step sent to its user (NONE: it sent nothing)
    audit,           \* the messages in the guild's log channel (interaction-logs)
    clock,           \* the wall clock (now_utc(), NOW()), in seconds
    reporting,       \* election_id -> the columns results_message_id, last_results_update_at
    results_channel, \* the posts and edits made in the guild's results channel, in order
    DB_POOL,         \* the global DB_POOL: NoId (None) or the pool it holds
    DB_LOCK,         \* the global DB_LOCK: 0 (free) or the task that holds it
    create_pool_calls, \* the outcome of every asyncpg.create_pool call so far, in order
    schema_pools     \* the pools on which ensure_schema has run to its end

\* what post_or_edit_auto_update reads and writes besides the four relations
refresh_vars == <<clock, reporting, results_channel>>

\* what ensure_db_pool reads and writes
pool_vars == <<DB_POOL, DB_LOCK, create_pool_calls, schema_pools>>

vars == <<elections, candidates, ballots, certifications, pc, local, resp, audit,
          refresh_vars, pool_vars>>

\* ------------------------------------------------------------- utilities
Range(s) == { s[i] : i \in DOMAIN s }

\* INSERT ... ON CONFLICT DO NOTHING: a row that exists is kept
Upd_InsertOnly(f, k, v) ==
    [ x \in (DOMAIN f) \cup {k} |-> IF x = k /\ k \notin DOMAIN f THEN v ELSE f[x] ]

\* a keyed table after INSERT (new key) or ON CONFLICT ... DO UPDATE (existing key)
Upd(f, k, v) == [ x \in (DOMAIN f) \cup {k} |-> IF x = k THEN v ELSE f[x] ]

NoLocal == [ kind |-> "none" ]


\* the values a multi-select can hand over: the options picked, at most n of
\* them, each once (listed here in ascending id order)
RECURSIVE Ascending(_)
Ascending(S) ==
    IF S = {} THEN << >>
    ELSE LET x == CHOOSE y \in S : \A z \in S : y <= z
         IN  <<x>> \o Ascending(S \ {x})

SelectValues(S, n) == { Ascending(T) : T \in { U \in SUBSET S : Cardinality(U) <= n } }

Min(a, b) == IF a < b THEN a ELSE b

\* uniq = first occurrences in order; then uniq[:cap]   (on_house_change / on_senate_change)
RECURSIVE Dedup(_, _)
Dedup(values, uniq) ==
    IF values = <<>> THEN uniq
    ELSE Dedup(Tail(values),
               IF Head(values) \in Range(uniq) THEN uniq ELSE Append(uniq, Head(values)))

\* uniq[-cap:]: the last cap entries are kept
Truncate_Last(s, cap) == SubSeq(s, Len(s) - Min(Len(s), cap) + 1, Len(s))

Truncate(s, cap) == SubSeq(s, 1, Min(Len(s), cap))

\* ---------------------------------------------------------------- labels
\* candidate_label: the office-specific rendering, as the parts it prints
\* (form names the f-string chosen; a part that is not printed is NULL)
candidate_label(office, name, party, state, district) ==
    IF office = "HOUSE" /\ state # NoText /\ district # NoDistrict /\ district # 0
    THEN [ form |-> "HOUSE", name |-> name, party |-> party,
           state |-> state, district |-> district ]
    ELSE IF office = "SENATE" /\ state # NoText
    THEN [ form |-> "SEN", name |-> name, party |-> party,
           state |-> state, district |-> NoDistrict ]
    ELSE IF office = "PRESIDENT"
    THEN [ form |-> "POTUS", name |-> name, party |-> party,
           state |-> NoText, district |-> NoDistrict ]
    ELSE [ form |-> "BARE", name |-> name, party |-> party,
           state |-> NoText, district |-> NoDistrict ]

\* ------------------------------------------------------------ tabulation
\* a first query that counts the reviewed ballots only
CountSubmitted_Reviewed(bs, eid) ==
    Cardinality({ i \in DOMAIN bs : bs[i].election_id = eid /\ bs[i].status # "PENDING" })

\* reporting_stats, first query: COUNT(*) of the election's ballots
CountSubmitted(bs, eid) ==
    Cardinality({ i \in DOMAIN bs : bs[i].election_id = eid })

\* reporting_stats, second query: COUNT(*) of the election's ACCEPTED ballots
CountAccepted(bs, eid) ==
    Cardinality({ i \in DOMAIN bs : bs[i].election_id = eid /\ bs[i].status = "ACCEPTED" })

\* the office_results query without its b.status='ACCEPTED' condition
TallyRows_AnyStatus(bs, cs, eid, office) ==
    { <<i, k, c>> \in (DOMAIN bs) \X (1..HOUSE_MAX_PICKS) \X (DOMAIN cs) :
        /\ bs[i].election_id = eid
        /\ cs[c].office = office
        /\ IF office = "PRESIDENT"
           THEN k = 1 /\ bs[i].pres_choice = c
           ELSE LET col == IF office = "HOUSE" THEN bs[i].house_choices
                                               ELSE bs[i].senate_choices
                IN  k \in DOMAIN col /\ col[k] = c }

\* the joined rows of the office_results query: (ballot, position, candidate)
TallyRows(bs, cs, eid, office) ==
    { <<i, k, c>> \in (DOMAIN bs) \X (1..HOUSE_MAX_PICKS) \X (DOMAIN cs) :
        /\ bs[i].election_id = eid
        /\ bs[i].status = "ACCEPTED"
        /\ cs[c].office = office
        /\ IF office = "PRESIDENT"
           THEN k = 1 /\ bs[i].pres_choice = c
           ELSE LET col == IF office = "HOUSE" THEN bs[i].house_choices
                                               ELSE bs[i].senate_choices
                IN  k \in DOMAIN col /\ col[k] = c }

GroupKey(cs, c) == <<cs[c].rp_name, cs[c].party, cs[c].state, cs[c].district>>

\* collation of the candidate names the model uses
NameRank(n) == IF n = "A" THEN 1 ELSE 2

\* ORDER BY rp_name ASC alone
SortsBefore_NameOnly(a, b) == NameRank(a.key[1]) < NameRank(b.key[1])

\* ORDER BY votes DESC, rp_name ASC: TRUE when row a comes before row b
SortsBefore(a, b) ==
    \/ a.votes > b.votes
    \/ a.votes = b.votes /\ NameRank(a.key[1]) < NameRank(b.key[1])

RECURSIVE SortRows(_)
SortRows(S) ==
    IF S = {} THEN <<>>
    ELSE LET top == CHOOSE a \in S : \A b \in S \ {a} : ~SortsBefore(b, a)
         IN  <<top>> \o SortRows(S \ {top})

\* the resolution at which the model keeps the quotient votes / total
PctScale == 10000

\* a / b rounded to the nearest integer (a >= 0, b > 0)
RoundDiv(a, b) == (2 * a + b) \div (2 * b)

\* votes // total * 100: the quotient truncated to an integer
Pct_IntDiv(votes, total) ==
    IF total = 0 THEN 0 ELSE ((votes \div total) * PctScale) * 100

\* line 381: (votes / total * 100.0) if total else 0.0, in units of 1/PctScale of a
\* percent point: the quotient is rounded first, then multiplied by 100
Pct(votes, total) ==
    IF total = 0 THEN 0 ELSE RoundDiv(votes * PctScale, total) * 100

\* office_results with the number of ACCEPTED ballots as its total
office_results_TotalIsBallots(bs, cs, eid, office) ==
    LET rows == TallyRows(bs, cs, eid, office)
        keys == { GroupKey(cs, r[3]) : r \in rows }
        recs == { [ key |-> g,
                    votes |-> Cardinality({ r \in rows : GroupKey(cs, r[3]) = g }) ]
                  : g \in keys }
        ordered == SortRows(recs)
        total == IF rows = {} THEN 0 ELSE CountAccepted(bs, eid)
    IN  [ results |-> [ i \in DOMAIN ordered |->
                          [ label |-> candidate_label(office, ordered[i].key[1],
                                                      ordered[i].key[2], ordered[i].key[3],
                                                      ordered[i].key[4]),
                            votes |-> ordered[i].votes,
                            pct |-> Pct(ordered[i].votes, total) ] ],
          total |-> total ]

\* office_results: the ordered (label, votes, pct) rows and the total
office_results(bs, cs, eid, office) ==
    LET rows == TallyRows(bs, cs, eid, office)
        keys == { GroupKey(cs, r[3]) : r \in rows }
        recs == { [ key |-> g,
                    votes |-> Cardinality({ r \in rows : GroupKey(cs, r[3]) = g }) ]
                  : g \in keys }
        ordered == SortRows(recs)
        total == Cardinality(rows)
    IN  [ results |-> [ i \in DOMAIN ordered |->
                          [ label |-> candidate_label(office, ordered[i].key[1],
                                                      ordered[i].key[2], ordered[i].key[3],
                                                      ordered[i].key[4]),
                            votes |-> ordered[i].votes,
                            pct |-> Pct(ordered[i].votes, total) ] ],
          total |-> total ]

\* snapshot_office: office, total and the result rows with pct rounded to 2 places
\* (pct in hundredths of a percent point)
snapshot_office(bs, cs, eid, office) ==
    LET r == office_results(bs, cs, eid, office)
    IN  [ office |-> office,
          total_votes |-> r.total,
          results |-> [ i \in DOMAIN r.results |->
                          [ label |-> r.results[i].label,
                            votes |-> r.results[i].votes,
                            pct |-> IF r.total = 0 THEN 0
                                    ELSE (r.results[i].votes * 20000 + r.total)
                                             \div (2 * r.total) ] ] ]

NoSnap == [ office |-> "NONE" ]

\* ------------------------------------------------------------------ Init
NoTime == -1

\* the two reporting columns of a row no refresh has written (both NULL)
NoReporting == [ results_message_id |-> NoId, last_results_update_at |-> NoTime ]

\* nothing has been posted in the results channel
NoRefresh ==
    /\ clock = 0
    /\ reporting = [ e \in ElectionIds |-> NoReporting ]
    /\ results_channel = << >>

\* setup_hook (lines 240-244) has created the pool: handlers get it from db()
\* without waiting
PoolReady ==
    /\ DB_POOL = 1
    /\ DB_LOCK = 0
    /\ create_pool_calls = <<TRUE>>
    /\ schema_pools = {1}

Init ==
    /\ elections = << >>
    /\ candidates = << >>
    /\ ballots = << >>
    /\ certifications = << >>
    /\ pc = [ t \in Tasks |-> "idle" ]
    /\ local = [ t \in Tasks |-> NoLocal ]
    /\ resp = "NONE"
    /\ audit = {}
    /\ NoRefresh
    /\ PoolReady

Exists(eid) == eid \in DOMAIN elections

\* a handler returns: its message goes to the user and the task has no coroutine
Return(t, msg) ==
    /\ pc' = [pc EXCEPT ![t] = "idle"]
    /\ local' = [local EXCEPT ![t] = NoLocal]
    /\ resp' = msg

\* the handler goes on to its next statement
Goto(t, next, loc) ==
    /\ pc' = [pc EXCEPT ![t] = next]
    /\ local' = [local EXCEPT ![t] = loc]
    /\ resp' = "NONE"

\* begin_election with INSERT ... ON CONFLICT (election_id) DO UPDATE
begin_election_Upsert(t) ==
    /\ pc[t] = "idle"
    /\ \E eid \in ElectionIds, inp \in CreateInputs :
         /\ elections' = Upd(elections, eid,
                             [ status |-> "DRAFT",
                               election_type |-> inp[1],
                               include_house |-> inp[2],
                               include_senate |-> inp[3],
                               include_pres |-> inp[4] ])
         /\ Return(t, "CREATED")
    /\ UNCHANGED <<candidates, ballots, certifications, audit, refresh_vars, pool_vars>>

\* --------------------------------------------------------- begin_election
begin_election(t) ==
    /\ pc[t] = "idle"
    /\ \E eid \in ElectionIds, inp \in CreateInputs :
         IF Exists(eid)
         THEN /\ Return(t, "ELECTION_EXISTS")
              /\ UNCHANGED elections
         ELSE /\ elections' = Upd(elections, eid,
                                  [ status |-> "DRAFT",
                                    election_type |-> inp[1],
                                    include_house |-> inp[2],
                                    include_senate |-> inp[3],
                                    include_pres |-> inp[4] ])
              /\ Return(t, "CREATED")
    /\ UNCHANGED <<candidates, ballots, certifications, audit, refresh_vars, pool_vars>>

\* line 675: state.strip().upper() if state else None, on the spellings the
\* inputs use
StateVal(state) == IF state = " tx" THEN "TX" ELSE state

\* add_candidate without the else branch that clears the district (lines 689-690)
add_candidate_check_KeepsDistrict(t) ==
    /\ pc[t] = "idle"
    /\ Len(candidates) + Cardinality({ u \in Tasks : pc[u] = "add_insert" }) < MaxCandidates
    /\ \E eid \in ElectionIds, inp \in CandidateInputs :
         LET off == inp[1]
             name == inp[2]
             party == inp[3]
             state_val == StateVal(inp[4])
             district == inp[5]
         IN
         IF ~Exists(eid) THEN Return(t, "NOT_FOUND")
         ELSE IF elections[eid].status = "CERTIFIED" THEN Return(t, "CANDIDATES_LOCKED")
         ELSE IF off \in {"HOUSE", "SENATE"} /\ state_val = NoText
              THEN Return(t, "STATE_REQUIRED")
         ELSE IF off \in {"HOUSE", "SENATE"} /\ state_val \notin STATE_CODES
              THEN Return(t, "INVALID_STATE")
         ELSE IF off = "HOUSE" /\ (district = NoDistrict \/ district < 1)
              THEN Return(t, "DISTRICT_REQUIRED")
         ELSE Goto(t, "add_insert",
                   [ kind |-> "add", election_id |-> eid, office |-> off,
                     rp_name |-> name, party |-> party, state |-> state_val,
                     district |-> district ])
    /\ UNCHANGED <<elections, candidates, ballots, certifications, audit, refresh_vars, pool_vars>>

\* add_candidate without its CERTIFIED check (lines 669-671 left out)
add_candidate_check_NoLock(t) ==
    /\ pc[t] = "idle"
    /\ Len(candidates) + Cardinality({ u \in Tasks : pc[u] = "add_insert" }) < MaxCandidates
    /\ \E eid \in ElectionIds, inp \in CandidateInputs :
         LET off == inp[1]
             name == inp[2]
             party == inp[3]
             state_val == StateVal(inp[4])
             district == inp[5]
         IN
         IF ~Exists(eid) THEN Return(t, "NOT_FOUND")
         ELSE IF off \in {"HOUSE", "SENATE"} /\ state_val = NoText
              THEN Return(t, "STATE_REQUIRED")
         ELSE IF off \in {"HOUSE", "SENATE"} /\ state_val \notin STATE_CODES
              THEN Return(t, "INVALID_STATE")
         ELSE IF off = "HOUSE" /\ (district = NoDistrict \/ district < 1)
              THEN Return(t, "DISTRICT_REQUIRED")
         ELSE Goto(t, "add_insert",
                   [ kind |-> "add", election_id |-> eid, office |-> off,
                     rp_name |-> name, party |-> party, state |-> state_val,
                     district |-> IF off = "HOUSE" THEN district ELSE NoDistrict ])
    /\ UNCHANGED <<elections, candidates, ballots, certifications, audit, refresh_vars, pool_vars>>

\* ---------------------------------------------------------- add_candidate
\* lines 663-690: fetch the election, the CERTIFIED lock and the input checks
add_candidate_validate(t, eid, inp) ==
    LET off == inp[1]
        name == inp[2]
        party == inp[3]
        state_val == StateVal(inp[4])
        district == inp[5]
    IN
    IF ~Exists(eid) THEN Return(t, "NOT_FOUND")
    ELSE IF elections[eid].status = "CERTIFIED" THEN Return(t, "CANDIDATES_LOCKED")
    ELSE IF off \in {"HOUSE", "SENATE"} /\ state_val = NoText
         THEN Return(t, "STATE_REQUIRED")
    ELSE IF off \in {"HOUSE", "SENATE"} /\ state_val \notin STATE_CODES
         THEN Return(t, "INVALID_STATE")
    ELSE IF off = "HOUSE" /\ (district = NoDistrict \/ district < 1)
         THEN Return(t, "DISTRICT_REQUIRED")
    ELSE Goto(t, "add_insert",
              [ kind |-> "add", election_id |-> eid, office |-> off,
                rp_name |-> name, party |-> party, state |-> state_val,
                district |-> IF off = "HOUSE" THEN district ELSE NoDistrict ])

\* add_candidate up to its INSERT, while the candidates table has room
add_candidate_check(t) ==
    /\ pc[t] = "idle"
    /\ Len(candidates) + Cardinality({ u \in Tasks : pc[u] = "add_insert" }) < MaxCandidates
    /\ \E eid \in ElectionIds, inp \in CandidateInputs : add_candidate_validate(t, eid, inp)
    /\ UNCHANGED <<elections, candidates, ballots, certifications, audit, refresh_vars, pool_vars>>

\* the INSERT without the UNIQUE (election_id, office, rp_name) constraint
add_candidate_insert_NoUnique(t) ==
    /\ pc[t] = "add_insert"
    /\ LET l == local[t] IN
       /\ candidates' = Append(candidates,
                               [ election_id |-> l.election_id, office |-> l.office,
                                 rp_name |-> l.rp_name, party |-> l.party,
                                 state |-> l.state, district |-> l.district ])
       /\ Return(t, "REGISTERED")
    /\ UNCHANGED <<elections, ballots, certifications, audit, refresh_vars, pool_vars>>

\* lines 692-713: the INSERT under UNIQUE (election_id, office, rp_name)
add_candidate_insert(t) ==
    /\ pc[t] = "add_insert"
    /\ LET l == local[t] IN
       IF \E c \in DOMAIN candidates :
              /\ candidates[c].election_id = l.election_id
              /\ candidates[c].office = l.office
              /\ candidates[c].rp_name = l.rp_name
       THEN /\ Return(t, "CANDIDATE_EXISTS")
            /\ UNCHANGED candidates
       ELSE /\ candidates' = Append(candidates,
                                    [ election_id |-> l.election_id, office |-> l.office,
                                      rp_name |-> l.rp_name, party |-> l.party,
                                      state |-> l.state, district |-> l.district ])
            /\ Return(t, "REGISTERED")
    /\ UNCHANGED <<elections, ballots, certifications, audit, refresh_vars, pool_vars>>

\* ---------------------------------------------------------- election_open
election_open_check(t) ==
    /\ pc[t] = "idle"
    /\ \E eid \in ElectionIds :
         IF ~Exists(eid) THEN Return(t, "NOT_FOUND")
         ELSE IF elections[eid].status = "CERTIFIED" THEN Return(t, "CANNOT_REOPEN")
         ELSE IF elections[eid].status = "OPEN" THEN Return(t, "ALREADY_OPEN")
         ELSE Goto(t, "open_update", [ kind |-> "open", election_id |-> eid ])
    /\ UNCHANGED <<elections, candidates, ballots, certifications, audit, refresh_vars, pool_vars>>

election_open_update(t) ==
    /\ pc[t] = "open_update"
    /\ elections' = [elections EXCEPT ![local[t].election_id].status = "OPEN"]
    /\ Return(t, "OPENED")
    /\ UNCHANGED <<candidates, ballots, certifications, audit, refresh_vars, pool_vars>>

\* --------------------------------------------------------- election_close
election_close_check(t) ==
    /\ pc[t] = "idle"
    /\ \E eid \in ElectionIds :
         IF ~Exists(eid) THEN Return(t, "NOT_FOUND")
         ELSE IF elections[eid].status = "CERTIFIED" THEN Return(t, "CANNOT_CHANGE_STATUS")
         ELSE IF elections[eid].status = "CLOSED" THEN Return(t, "ALREADY_CLOSED")
         ELSE Goto(t, "close_update", [ kind |-> "close", election_id |-> eid ])
    /\ UNCHANGED <<elections, candidates, ballots, certifications, audit, refresh_vars, pool_vars>>

election_close_update(t) ==
    /\ pc[t] = "close_update"
    /\ elections' = [elections EXCEPT ![local[t].election_id].status = "CLOSED"]
    /\ Return(t, "CLOSED")
    /\ UNCHANGED <<candidates, ballots, certifications, audit, refresh_vars, pool_vars>>
\* ------------------------------------------------------------------ vote
\* select options that are not split by office: every candidate of the election
Options_AnyOffice(eid, office) ==
    { c \in DOMAIN candidates : candidates[c].election_id = eid }

\* candidate ids of an election and office (the select options of a VoteView)
Options(eid, office) ==
    { c \in DOMAIN candidates :
        candidates[c].election_id = eid /\ candidates[c].office = office }

\* /vote (lines 1005-1073): the election must be OPEN and every included office
\* must have a candidate; the reply carries a fresh VoteView
vote(t) ==
    /\ pc[t] = "idle"
    /\ \E eid \in ElectionIds, voter \in Voters :
         IF ~Exists(eid) THEN Return(t, "NOT_FOUND")
         ELSE LET e == elections[eid] IN
              IF e.status # "OPEN" THEN Return(t, "VOTE_NOT_OPEN")
              ELSE IF \/ e.include_house /\ Options(eid, "HOUSE") = {}
                      \/ e.include_senate /\ Options(eid, "SENATE") = {}
                      \/ e.include_pres /\ Options(eid, "PRESIDENT") = {}
                   THEN Return(t, "NO_CANDIDATES")
              ELSE Goto(t, "view",
                        [ kind |-> "view", election_id |-> eid, voter |-> voter,
                          include_house |-> e.include_house,
                          include_senate |-> e.include_senate,
                          include_pres |-> e.include_pres,
                          house_opts |-> Options(eid, "HOUSE"),
                          senate_opts |-> Options(eid, "SENATE"),
                          pres_opts |-> Options(eid, "PRESIDENT"),
                          house_selected |-> << >>,
                          senate_selected |-> << >>,
                          pres_selected |-> NoId ])
    /\ UNCHANGED <<elections, candidates, ballots, certifications, audit, refresh_vars, pool_vars>>

\* a select callback leaves the view open and sends nothing
Stay(t, loc) ==
    /\ local' = [local EXCEPT ![t] = loc]
    /\ resp' = "NONE"
    /\ UNCHANGED pc

\* VoteView.on_house_change: the select hands over at most max_values values
on_house_change(t) ==
    /\ pc[t] = "view"
    /\ local[t].include_house
    /\ \E values \in SelectValues(local[t].house_opts,
                                Min(HOUSE_MAX_PICKS, Cardinality(local[t].house_opts))) :
         /\ Truncate(Dedup(values, << >>), HOUSE_MAX_PICKS) # local[t].house_selected
         /\ Stay(t, [local[t] EXCEPT
                       !.house_selected = Truncate(Dedup(values, << >>), HOUSE_MAX_PICKS)])
    /\ UNCHANGED <<elections, candidates, ballots, certifications, audit, refresh_vars, pool_vars>>

on_senate_change(t) ==
    /\ pc[t] = "view"
    /\ local[t].include_senate
    /\ \E values \in SelectValues(local[t].senate_opts,
                                Min(SENATE_MAX_PICKS, Cardinality(local[t].senate_opts))) :
         /\ Truncate(Dedup(values, << >>), SENATE_MAX_PICKS) # local[t].senate_selected
         /\ Stay(t, [local[t] EXCEPT
                       !.senate_selected = Truncate(Dedup(values, << >>), SENATE_MAX_PICKS)])
    /\ UNCHANGED <<elections, candidates, ballots, certifications, audit, refresh_vars, pool_vars>>

pres_callback(t) ==
    /\ pc[t] = "view"
    /\ local[t].include_pres
    /\ \E v \in local[t].pres_opts \cup {NoId} :
         /\ v # local[t].pres_selected
         /\ Stay(t, [local[t] EXCEPT !.pres_selected = v])
    /\ UNCHANGED <<elections, candidates, ballots, certifications, audit, refresh_vars, pool_vars>>

\* a handler started from a view ends: the view stays open
BackToView(t, msg) ==
    /\ pc' = [pc EXCEPT ![t] = "view"]
    /\ resp' = msg
    /\ UNCHANGED local

\* SubmitButton.callback without its empty-ballot test (lines 945-952 left out)
submit_check_NoEmptyTest(t) ==
    /\ pc[t] = "view"
    /\ LET l == local[t]
           e == elections[l.election_id]
           empty_house == ~e.include_house \/ Len(l.house_selected) = 0
           empty_senate == ~e.include_senate \/ Len(l.senate_selected) = 0
           empty_pres == ~e.include_pres \/ l.pres_selected = NoId
       IN  IF e.status # "OPEN" THEN BackToView(t, "POLLS_NOT_OPEN")
           ELSE /\ pc' = [pc EXCEPT ![t] = "submit_insert"]
                /\ resp' = "NONE"
                /\ UNCHANGED local
    /\ UNCHANGED <<elections, candidates, ballots, certifications, audit, refresh_vars, pool_vars>>

\* SubmitButton.callback, lines 936-952: status check and empty-ballot check
submit_check(t) ==
    /\ pc[t] = "view"
    /\ LET l == local[t]
           e == elections[l.election_id]
           empty_house == ~e.include_house \/ Len(l.house_selected) = 0
           empty_senate == ~e.include_senate \/ Len(l.senate_selected) = 0
           empty_pres == ~e.include_pres \/ l.pres_selected = NoId
       IN  IF e.status # "OPEN" THEN BackToView(t, "POLLS_NOT_OPEN")
           ELSE IF empty_house /\ empty_senate /\ empty_pres
                THEN BackToView(t, "EMPTY_BALLOT")
           ELSE /\ pc' = [pc EXCEPT ![t] = "submit_insert"]
                /\ resp' = "NONE"
                /\ UNCHANGED local
    /\ UNCHANGED <<elections, candidates, ballots, certifications, audit, refresh_vars, pool_vars>>

\* a ballots table without the UNIQUE (election_id, voter_id) constraint
HasBallot_NoConstraint(bs, eid, voter) == FALSE

\* a uniqueness that leaves REJECTED rows out (a partial unique index)
HasBallot_ExceptRejected(bs, eid, voter) ==
    \E i \in DOMAIN bs :
       bs[i].election_id = eid /\ bs[i].voter_id = voter /\ bs[i].status # "REJECTED"

\* UNIQUE (election_id, voter_id)
HasBallot(bs, eid, voter) ==
    \E i \in DOMAIN bs : bs[i].election_id = eid /\ bs[i].voter_id = voter

\* SubmitButton.callback, lines 957-1000: the INSERT, then the notification to
\* the ballot channel (which may raise) and the reply; success stops the view
submit_insert(t) ==
    /\ pc[t] = "submit_insert"
    /\ LET l == local[t] IN
       IF HasBallot(ballots, l.election_id, l.voter)
       THEN /\ BackToView(t, "ALREADY_SUBMITTED")
            /\ UNCHANGED ballots
       ELSE /\ ballots' = Append(ballots,
                                 [ election_id |-> l.election_id,
                                   voter_id |-> l.voter,
                                   house_choices |-> l.house_selected,
                                   senate_choices |-> l.senate_selected,
                                   pres_choice |-> l.pres_selected,
                                   status |-> "PENDING",
                                   reviewed_by |-> NoId,
                                   reject_reason |-> NoText ])
            /\ \E notified \in BOOLEAN :
                 IF notified THEN Return(t, "SUBMITTED") ELSE BackToView(t, "ERROR")
    /\ UNCHANGED <<elections, candidates, certifications, audit, refresh_vars, pool_vars>>

\* ---------------------------------------------------------- ballot review
\* the FEC member behind a task
FecUser(t) == 100 + t

\* ballots_next with ORDER BY b.submitted_at DESC
ballots_next_NewestFirst(t) ==
    /\ pc[t] = "idle"
    /\ \E eid \in ElectionIds :
         LET pending == { i \in DOMAIN ballots :
                            ballots[i].election_id = eid /\ ballots[i].status = "PENDING" }
         IN  IF pending = {} THEN Return(t, "NO_PENDING")
             ELSE Goto(t, "review",
                       [ kind |-> "review", election_id |-> eid,
                         ballot_id |-> CHOOSE i \in pending : \A j \in pending : i >= j ])
    /\ UNCHANGED <<elections, candidates, ballots, certifications, audit, refresh_vars, pool_vars>>

\* ballots_next with LIMIT 1 OFFSET 1: the oldest PENDING ballot is passed over
ballots_next_Offset(t) ==
    /\ pc[t] = "idle"
    /\ \E eid \in ElectionIds :
         LET pending == { i \in DOMAIN ballots :
                            ballots[i].election_id = eid /\ ballots[i].status = "PENDING" }
             oldest == CHOOSE i \in pending : \A j \in pending : i <= j
             later == pending \ {oldest}
         IN  IF pending = {} \/ later = {} THEN Return(t, "NO_PENDING")
             ELSE Goto(t, "review",
                       [ kind |-> "review", election_id |-> eid,
                         ballot_id |-> CHOOSE i \in later : \A j \in later : i <= j ])
    /\ UNCHANGED <<elections, candidates, ballots, certifications, audit, refresh_vars, pool_vars>>

\* ballots_next: the oldest PENDING ballot of the election, in a ReviewView
ballots_next(t) ==
    /\ pc[t] = "idle"
    /\ \E eid \in ElectionIds :
         LET pending == { i \in DOMAIN ballots :
                            ballots[i].election_id = eid /\ ballots[i].status = "PENDING" }
         IN  IF pending = {} THEN Return(t, "NO_PENDING")
             ELSE Goto(t, "review",
                       [ kind |-> "review", election_id |-> eid,
                         ballot_id |-> CHOOSE i \in pending : \A j \in pending : i <= j ])
    /\ UNCHANGED <<elections, candidates, ballots, certifications, audit, refresh_vars, pool_vars>>

\* the review UPDATE without its AND status='PENDING' condition
ReviewUpdate_Unconditional(bs, bid, status, by, reason) ==
    [ i \in DOMAIN bs |->
        IF i = bid
        THEN [ bs[i] EXCEPT !.status = status, !.reviewed_by = by, !.reject_reason = reason ]
        ELSE bs[i] ]

\* the review UPDATE without reject_reason in its SET list
ReviewUpdate_KeepsReason(bs, bid, status, by, reason) ==
    [ i \in DOMAIN bs |->
        IF i = bid /\ bs[i].status = "PENDING"
        THEN [ bs[i] EXCEPT !.status = status, !.reviewed_by = by ]
        ELSE bs[i] ]

\* UPDATE ballots SET status, reviewed_by, reject_reason WHERE ballot_id AND status='PENDING'
ReviewUpdate(bs, bid, status, by, reason) ==
    [ i \in DOMAIN bs |->
        IF i = bid /\ bs[i].status = "PENDING"
        THEN [ bs[i] EXCEPT !.status = status, !.reviewed_by = by, !.reject_reason = reason ]
        ELSE bs[i] ]

\* ReviewView.accept
accept(t) ==
    /\ pc[t] = "review"
    /\ ballots' = ReviewUpdate(ballots, local[t].ballot_id, "ACCEPTED", FecUser(t), NoText)
    /\ Return(t, "BALLOT_ACCEPTED")
    /\ UNCHANGED <<elections, candidates, certifications, audit, refresh_vars, pool_vars>>

\* ReviewView.reject: opens the RejectModal and stops the view
reject(t) ==
    /\ pc[t] = "review"
    /\ Goto(t, "modal", [ local[t] EXCEPT !.kind = "modal" ])
    /\ UNCHANGED <<elections, candidates, ballots, certifications, audit, refresh_vars, pool_vars>>

\* RejectModal.on_submit
RejectModal_on_submit(t) ==
    /\ pc[t] = "modal"
    /\ \E reason \in Reasons :
         ballots' = ReviewUpdate(ballots, local[t].ballot_id, "REJECTED", FecUser(t), reason)
    /\ Return(t, "BALLOT_REJECTED")
    /\ UNCHANGED <<elections, candidates, certifications, audit, refresh_vars, pool_vars>>

\* a view times out (timeout=300) or the modal is dismissed
view_timeout(t) ==
    /\ pc[t] \in {"view", "review", "modal"}
    /\ Return(t, "NONE")
    /\ UNCHANGED <<elections, candidates, ballots, certifications, audit, refresh_vars, pool_vars>>
\* ------------------------------------------------------- election_certify
\* the next await of election_certify after the two counts: the snapshot of the
\* first included office not yet read, else the upsert
CertifyNext(l, after) ==
    IF after = "accepted" /\ l.include_house THEN "cert_house"
    ELSE IF after \in {"accepted", "house"} /\ l.include_senate THEN "cert_senate"
    ELSE IF after \in {"accepted", "house", "senate"} /\ l.include_pres THEN "cert_pres"
    ELSE "cert_upsert"

\* lines 1253-1261: fetch the election; only a CLOSED one goes on
election_certify_check(t) ==
    /\ pc[t] = "idle"
    /\ \E eid \in ElectionIds :
         IF ~Exists(eid) THEN Return(t, "NOT_FOUND")
         ELSE IF elections[eid].status # "CLOSED" THEN Return(t, "NOT_CLOSED")
         ELSE Goto(t, "cert_submitted",
                   [ kind |-> "certify", election_id |-> eid,
                     include_house |-> elections[eid].include_house,
                     include_senate |-> elections[eid].include_senate,
                     include_pres |-> elections[eid].include_pres,
                     submitted |-> 0, accepted |-> 0,
                     house_snap |-> NoSnap, senate_snap |-> NoSnap, pres_snap |-> NoSnap ])
    /\ UNCHANGED <<elections, candidates, ballots, certifications, audit, refresh_vars, pool_vars>>

\* line 1263, reporting_stats: the two COUNT queries are two awaits
election_certify_submitted(t) ==
    /\ pc[t] = "cert_submitted"
    /\ Goto(t, "cert_accepted",
            [ local[t] EXCEPT !.submitted = CountSubmitted(ballots, local[t].election_id) ])
    /\ UNCHANGED <<elections, candidates, ballots, certifications, audit, refresh_vars, pool_vars>>

election_certify_accepted(t) ==
    /\ pc[t] = "cert_accepted"
    /\ Goto(t, CertifyNext(local[t], "accepted"),
            [ local[t] EXCEPT !.accepted = CountAccepted(ballots, local[t].election_id) ])
    /\ UNCHANGED <<elections, candidates, ballots, certifications, audit, refresh_vars, pool_vars>>

\* lines 1265-1267: one office_results query per included office
election_certify_house(t) ==
    /\ pc[t] = "cert_house"
    /\ Goto(t, CertifyNext(local[t], "house"),
            [ local[t] EXCEPT !.house_snap =
                snapshot_office(ballots, candidates, local[t].election_id, "HOUSE") ])
    /\ UNCHANGED <<elections, candidates, ballots, certifications, audit, refresh_vars, pool_vars>>

election_certify_senate(t) ==
    /\ pc[t] = "cert_senate"
    /\ Goto(t, CertifyNext(local[t], "senate"),
            [ local[t] EXCEPT !.senate_snap =
                snapshot_office(ballots, candidates, local[t].election_id, "SENATE") ])
    /\ UNCHANGED <<elections, candidates, ballots, certifications, audit, refresh_vars, pool_vars>>

election_certify_pres(t) ==
    /\ pc[t] = "cert_pres"
    /\ Goto(t, "cert_upsert",
            [ local[t] EXCEPT !.pres_snap =
                snapshot_office(ballots, candidates, local[t].election_id, "PRESIDENT") ])
    /\ UNCHANGED <<elections, candidates, ballots, certifications, audit, refresh_vars, pool_vars>>

\* the upsert with the accepted count in both count columns
election_certify_upsert_AcceptedTwice(t) ==
    /\ pc[t] = "cert_upsert"
    /\ \E notes \in Notes :
         certifications' = Upd(certifications, local[t].election_id,
                               [ certified_by |-> FecUser(t),
                                 submitted_ballots |-> local[t].accepted,
                                 accepted_ballots |-> local[t].accepted,
                                 house_snapshot |-> local[t].house_snap,
                                 senate_snapshot |-> local[t].senate_snap,
                                 pres_snapshot |-> local[t].pres_snap,
                                 notes |-> notes ])
    /\ Goto(t, "cert_flip", local[t])
    /\ UNCHANGED <<elections, candidates, ballots, audit, refresh_vars, pool_vars>>

\* lines 1269-1293: INSERT ... ON CONFLICT (election_id) DO UPDATE
\* (notes is an argument of the command; nothing reads it before this statement)
election_certify_upsert(t) ==
    /\ pc[t] = "cert_upsert"
    /\ \E notes \in Notes :
         certifications' = Upd(certifications, local[t].election_id,
                               [ certified_by |-> FecUser(t),
                                 submitted_ballots |-> local[t].submitted,
                                 accepted_ballots |-> local[t].accepted,
                                 house_snapshot |-> local[t].house_snap,
                                 senate_snapshot |-> local[t].senate_snap,
                                 pres_snapshot |-> local[t].pres_snap,
                                 notes |-> notes ])
    /\ Goto(t, "cert_flip", local[t])
    /\ UNCHANGED <<elections, candidates, ballots, audit, refresh_vars, pool_vars>>

\* line 1295: UPDATE elections SET status='CERTIFIED' (its own statement)
election_certify_flip(t) ==
    /\ pc[t] = "cert_flip"
    /\ elections' = [elections EXCEPT ![local[t].election_id].status = "CERTIFIED"]
    /\ Return(t, "CERTIFIED")
    /\ UNCHANGED <<candidates, ballots, certifications, audit, refresh_vars, pool_vars>>

\* ----------------------------------------------------- election_uncertify
election_uncertify_check(t) ==
    /\ pc[t] = "idle"
    /\ \E eid \in ElectionIds :
         IF ~Exists(eid) THEN Return(t, "NOT_FOUND")
         ELSE IF elections[eid].status # "CERTIFIED" THEN Return(t, "NOT_CERTIFIED")
         ELSE Goto(t, "uncert_update", [ kind |-> "uncertify", election_id |-> eid ])
    /\ UNCHANGED <<elections, candidates, ballots, certifications, audit, refresh_vars, pool_vars>>

\* a revert that also deletes the election's certification row
election_uncertify_update_DropsSnapshot(t) ==
    /\ pc[t] = "uncert_update"
    /\ elections' = [elections EXCEPT ![local[t].election_id].status = "CLOSED"]
    /\ certifications' = [ e \in DOMAIN certifications \ {local[t].election_id}
                             |-> certifications[e] ]
    /\ Goto(t, "uncert_log", local[t])
    /\ UNCHANGED <<candidates, ballots, audit, refresh_vars, pool_vars>>

\* line 1334: UPDATE elections SET status='CLOSED' (no condition on the status)
election_uncertify_update(t) ==
    /\ pc[t] = "uncert_update"
    /\ elections' = [elections EXCEPT ![local[t].election_id].status = "CLOSED"]
    /\ Goto(t, "uncert_log", local[t])
    /\ UNCHANGED <<candidates, ballots, certifications, audit, refresh_vars, pool_vars>>

\* the log line of a revert: election, reverting member, reason
AuditRecord(eid, by, reason) == [ election_id |-> eid, by |-> by, reason |-> reason ]

\* safe_log_event: the line reaches the log channel only if the channel exists
\* and the send does not raise; every exception is swallowed
safe_log_event(log, delivered, record) == IF delivered THEN log \cup {record} ELSE log

\* lines 1336-1345: the log call, then the reply (the same reply either way)
election_uncertify_log(t) ==
    /\ pc[t] = "uncert_log"
    /\ \E delivered \in BOOLEAN, reason \in RevertReasons :
         audit' = safe_log_event(audit, delivered,
                                 AuditRecord(local[t].election_id, FecUser(t), reason))
    /\ Return(t, "REVERTED")
    /\ UNCHANGED <<elections, candidates, ballots, certifications, refresh_vars, pool_vars>>

\* ---------------------------------------------------------- store failure
\* positions whose next statement is a store call of a running handler
StorePcs ==
    { "add_insert", "open_update", "close_update", "submit_insert",
      "cert_submitted", "cert_accepted", "cert_house", "cert_senate", "cert_pres",
      "cert_upsert", "cert_flip", "uncert_update" }

\* the store call raises (connection lost, timeout) or the process dies: the
\* statement has no effect and the rest of the handler does not run
store_failure(t) ==
    /\ pc[t] \in StorePcs
    /\ IF local[t].kind = "view" THEN BackToView(t, "ERROR") ELSE Return(t, "ERROR")
    /\ UNCHANGED <<elections, candidates, ballots, certifications, audit, refresh_vars, pool_vars>>

\* ------------------------------------------------------------------ Next
Step(t) ==
    \/ begin_election(t)
    \/ add_candidate_check(t)
    \/ add_candidate_insert(t)
    \/ election_open_check(t)
    \/ election_open_update(t)
    \/ election_close_check(t)
    \/ election_close_update(t)
    \/ vote(t)
    \/ on_house_change(t)
    \/ on_senate_change(t)
    \/ pres_callback(t)
    \/ submit_check(t)
    \/ submit_insert(t)
    \/ ballots_next(t)
    \/ accept(t)
    \/ reject(t)
    \/ RejectModal_on_submit(t)
    \/ view_timeout(t)
    \/ election_certify_check(t)
    \/ election_certify_submitted(t)
    \/ election_certify_accepted(t)
    \/ election_certify_house(t)
    \/ election_certify_senate(t)
    \/ election_certify_pres(t)
    \/ election_certify_upsert(t)
    \/ election_certify_flip(t)
    \/ election_uncertify_check(t)
    \/ election_uncertify_update(t)
    \/ election_uncertify_log(t)
    \/ store_failure(t)

Next == \E t \in Tasks : Step(t)

Spec == Init /\ [][Next]_vars

\* ------------------------------------------------- one operation at a time
\* a task between handlers: no coroutine of it is suspended at a store call
Quiescent(t) == pc[t] \in {"idle", "view", "review", "modal"}

NextSeq == \E t \in Tasks : Step(t) /\ \A u \in Tasks \ {t} : Quiescent(u)

SpecSeq == Init /\ [][NextSeq]_vars

\* ------------------------------------- an election that was certified and reverted
\* the store after begin_election, election_close, election_certify and
\* election_uncertify on an election without candidates or ballots: status CLOSED,
\* the snapshot of the first certification (all counts 0) still stored
RecertInit ==
    /\ \E inp \in CreateInputs, logged \in BOOLEAN :
         /\ elections = Upd(<< >>, "E1",
                            [ status |-> "CLOSED", election_type |-> inp[1],
                              include_house |-> inp[2], include_senate |-> inp[3],
                              include_pres |-> inp[4] ])
         /\ certifications = Upd(<< >>, "E1",
              [ certified_by |-> FecUser(1),
                submitted_ballots |-> 0,
                accepted_ballots |-> 0,
                house_snapshot |-> IF inp[2] THEN snapshot_office(<< >>, << >>, "E1", "HOUSE")
                                             ELSE NoSnap,
                senate_snapshot |-> IF inp[3] THEN snapshot_office(<< >>, << >>, "E1", "SENATE")
                                              ELSE NoSnap,
                pres_snapshot |-> IF inp[4] THEN snapshot_office(<< >>, << >>, "E1", "PRESIDENT")
                                            ELSE NoSnap,
                notes |-> "NULL" ])
         /\ audit = safe_log_event({}, logged, AuditRecord("E1", FecUser(1), "recount"))
    /\ candidates = << >>
    /\ ballots = << >>
    /\ pc = [ t \in Tasks |-> "idle" ]
    /\ local = [ t \in Tasks |-> NoLocal ]
    /\ resp = "REVERTED"
    /\ NoRefresh
    /\ PoolReady

SpecRecert == RecertInit /\ [][NextSeq]_vars

\* ----------------------------------------------------- tabulation inputs
\* one candidate table: two House candidates, one Senate, one President
TabCandidates ==
    << [ election_id |-> "E1", office |-> "HOUSE", rp_name |-> "A", party |-> "DEM",
         state |-> "TX", district |-> 1 ],
       [ election_id |-> "E1", office |-> "HOUSE", rp_name |-> "B", party |-> "REP",
         state |-> "TX", district |-> 1 ],
       [ election_id |-> "E1", office |-> "SENATE", rp_name |-> "A", party |-> "DEM",
         state |-> "TX", district |-> NoDistrict ],
       [ election_id |-> "E1", office |-> "PRESIDENT", rp_name |-> "B", party |-> "REP",
         state |-> NoText, district |-> NoDistrict ] >>

\* the arrays a VoteView can hold for an office: no id twice, at most cap ids,
\* in the order picked
StoredChoices(ids, cap) ==
    UNION { { f \in [1..n -> ids] : \A i, j \in 1..n : f[i] = f[j] => i = j }
            : n \in 0..Min(cap, Cardinality(ids)) }

\* the ballot rows the program can have stored (a ballot is never empty;
\* a reviewed row carries its reviewer, a rejected one its reason)
TabRows ==
    { r \in { [ election_id |-> "E1", voter_id |-> NoId,
                house_choices |-> h, senate_choices |-> sn, pres_choice |-> p,
                status |-> st,
                reviewed_by |-> IF st = "PENDING" THEN NoId ELSE FecUser(1),
                reject_reason |-> IF st = "REJECTED" THEN "late" ELSE NoText ]
              : h \in StoredChoices({1, 2}, HOUSE_MAX_PICKS),
                sn \in StoredChoices({3}, SENATE_MAX_PICKS),
                p \in {NoId, 4},
                st \in {"PENDING", "ACCEPTED", "REJECTED"} } :
        ~(r.house_choices = << >> /\ r.senate_choices = << >> /\ r.pres_choice = NoId) }

\* a ballot table made of the rows f: row i is the ballot of voter i
TabBallots(f) == [ i \in DOMAIN f |-> [ f[i] EXCEPT !.voter_id = i ] ]

TabInit ==
    /\ elections = Upd(<< >>, "E1",
                       [ status |-> "CLOSED", election_type |-> "GENERAL",
                         include_house |-> TRUE, include_senate |-> TRUE,
                         include_pres |-> TRUE ])
    /\ candidates = TabCandidates
    /\ \E n \in 0..MaxTabBallots : \E f \in [1..n -> TabRows] : ballots = TabBallots(f)
    /\ certifications = << >>
    /\ pc = [ t \in Tasks |-> "idle" ]
    /\ local = [ t \in Tasks |-> NoLocal ]
    /\ resp = "NONE"
    /\ audit = {}
    /\ NoRefresh
    /\ PoolReady

\* election_results, lines 1366-1410: one office_results call per included
\* office, in the order House, Senate, President
ResultsNext(l, after) ==
    IF after = "fetch" /\ l.include_house THEN "res_house"
    ELSE IF after \in {"fetch", "house"} /\ l.include_senate THEN "res_senate"
    ELSE IF after \in {"fetch", "house", "senate"} /\ l.include_pres THEN "res_pres"
    ELSE "res_send"

\* res before the office_results call of an office has returned
NoResults == [ results |-> << >>, total |-> -1 ]

election_results_fetch(t) ==
    /\ pc[t] = "idle"
    /\ \E eid \in ElectionIds :
         IF ~Exists(eid) THEN Return(t, "NOT_FOUND")
         ELSE LET l == [ kind |-> "results", election_id |-> eid,
                         include_house |-> elections[eid].include_house,
                         include_senate |-> elections[eid].include_senate,
                         include_pres |-> elections[eid].include_pres,
                         house |-> NoResults, senate |-> NoResults, pres |-> NoResults ]
              IN  Goto(t, ResultsNext(l, "fetch"), l)
    /\ UNCHANGED <<elections, candidates, ballots, certifications, audit, refresh_vars, pool_vars>>

election_results_house(t) ==
    /\ pc[t] = "res_house"
    /\ Goto(t, ResultsNext(local[t], "house"),
            [ local[t] EXCEPT !.house =
                office_results(ballots, candidates, local[t].election_id, "HOUSE") ])
    /\ UNCHANGED <<elections, candidates, ballots, certifications, audit, refresh_vars, pool_vars>>

election_results_senate(t) ==
    /\ pc[t] = "res_senate"
    /\ Goto(t, ResultsNext(local[t], "senate"),
            [ local[t] EXCEPT !.senate =
                office_results(ballots, candidates, local[t].election_id, "SENATE") ])
    /\ UNCHANGED <<elections, candidates, ballots, certifications, audit, refresh_vars, pool_vars>>

election_results_pres(t) ==
    /\ pc[t] = "res_pres"
    /\ Goto(t, "res_send",
            [ local[t] EXCEPT !.pres =
                office_results(ballots, candidates, local[t].election_id, "PRESIDENT") ])
    /\ UNCHANGED <<elections, candidates, ballots, certifications, audit, refresh_vars, pool_vars>>

\* lines 1412-1418: the lines are sent
election_results_send(t) ==
    /\ pc[t] = "res_send"
    /\ Return(t, "RESULTS")
    /\ UNCHANGED <<elections, candidates, ballots, certifications, audit, refresh_vars, pool_vars>>

\* one member asks for the full results of the stored data
TabNext ==
    \/ election_results_fetch(1)
    \/ election_results_house(1)
    \/ election_results_senate(1)
    \/ election_results_pres(1)
    \/ election_results_send(1)

SpecTab == TabInit /\ [][TabNext]_vars

\* ------------------------------------------------------- selection inputs
\* the lists of option values a select interaction can carry to its callback:
\* any option any number of times, in any order
RawValues == UNION { [1..n -> 1..NumPickOptions] : n \in 0..MaxPickLen }

\* an OPEN election with one multi-select office and NumPickOptions candidates
\* for it; a voter has a VoteView and a select interaction has just arrived
PickInit ==
    /\ \E office \in {"HOUSE", "SENATE"}, values \in RawValues :
         /\ elections = Upd(<< >>, "E1",
                            [ status |-> "OPEN",
                              election_type |-> IF office = "HOUSE" THEN "GENERAL"
                                                                    ELSE "MIDTERMS",
                              include_house |-> office = "HOUSE",
                              include_senate |-> office = "SENATE",
                              include_pres |-> FALSE ])
         /\ candidates = [ c \in 1..NumPickOptions |->
                             [ election_id |-> "E1", office |-> office,
                               rp_name |-> ToString(c), party |-> "DEM", state |-> "TX",
                               district |-> IF office = "HOUSE" THEN 1 ELSE NoDistrict ] ]
         /\ local = [ t \in Tasks |->
                        IF t = 1
                        THEN [ kind |-> "view", election_id |-> "E1", voter |-> 1,
                               include_house |-> office = "HOUSE",
                               include_senate |-> office = "SENATE",
                               include_pres |-> FALSE,
                               house_opts |-> IF office = "HOUSE" THEN 1..NumPickOptions
                                                                  ELSE {},
                               senate_opts |-> IF office = "SENATE" THEN 1..NumPickOptions
                                                                    ELSE {},
                               pres_opts |-> {},
                               house_selected |-> << >>,
                               senate_selected |-> << >>,
                               pres_selected |-> NoId,
                               values |-> values ]
                        ELSE NoLocal ]
    /\ ballots = << >>
    /\ certifications = << >>
    /\ pc = [ t \in Tasks |-> IF t = 1 THEN "select" ELSE "idle" ]
    /\ resp = "NONE"
    /\ audit = {}
    /\ NoRefresh
    /\ PoolReady

\* PagedMultiSelect.callback, lines 794-796, with on_house_change / on_senate_change
\* (lines 821-826, 839-844) applied to the values of the interaction
PagedMultiSelect_callback(t) ==
    /\ pc[t] = "select"
    /\ LET l == local[t] IN
       local' = [ local EXCEPT ![t] =
                    IF l.include_house
                    THEN [ l EXCEPT !.house_selected =
                             Truncate(Dedup(l.values, << >>), HOUSE_MAX_PICKS) ]
                    ELSE [ l EXCEPT !.senate_selected =
                             Truncate(Dedup(l.values, << >>), SENATE_MAX_PICKS) ] ]
    /\ pc' = [pc EXCEPT ![t] = "view"]
    /\ resp' = "NONE"
    /\ UNCHANGED <<elections, candidates, ballots, certifications, audit, refresh_vars, pool_vars>>

PickNext ==
    \/ PagedMultiSelect_callback(1)
    \/ submit_check(1)
    \/ submit_insert(1)

SpecPick == PickInit /\ [][PickNext]_vars

\* ------------------------------------------------- post_or_edit_auto_update
\* an election with open polls; nothing has been posted for it yet
RefreshInit ==
    /\ elections = Upd(<< >>, "E1",
                       [ status |-> "OPEN", election_type |-> "GENERAL",
                         include_house |-> TRUE, include_senate |-> TRUE,
                         include_pres |-> TRUE ])
    /\ candidates = << >>
    /\ ballots = << >>
    /\ certifications = << >>
    /\ pc = [ t \in Tasks |-> "idle" ]
    /\ local = [ t \in Tasks |-> NoLocal ]
    /\ resp = "NONE"
    /\ audit = {}
    /\ NoRefresh
    /\ PoolReady

\* time passes
Tick ==
    /\ clock + TickSeconds <= MaxClock
    /\ clock' = clock + TickSeconds
    /\ UNCHANGED <<elections, candidates, ballots, certifications, pc, local, resp, audit,
                   reporting, results_channel, pool_vars>>

\* lines 420-429: a handler that has done its own work (open, close, accept,
\* reject, certify) calls post_or_edit_auto_update, which fetches the election
\* row and takes the two reporting columns from it
auto_update_row(t, eid) ==
    IF ~Exists(eid) THEN Return(t, "NONE")
    ELSE Goto(t, "au_throttle",
              [ kind |-> "refresh", election_id |-> eid,
                status |-> elections[eid].status,
                last |-> reporting[eid].last_results_update_at,
                msg_id |-> reporting[eid].results_message_id ])

auto_update_fetch(t) ==
    /\ pc[t] = "idle"
    /\ \E eid \in ElectionIds : auto_update_row(t, eid)
    /\ UNCHANGED <<elections, candidates, ballots, certifications, audit,
                   refresh_vars, pool_vars>>

\* lines 429-433: the row's last_results_update_at against now_utc()
auto_update_throttle(t) ==
    /\ pc[t] = "au_throttle"
    /\ IF local[t].last # NoTime /\ clock - local[t].last < AUTO_UPDATE_MIN_SECONDS
       THEN Return(t, "NONE")
       ELSE Goto(t, "au_build", local[t])
    /\ UNCHANGED <<elections, candidates, ballots, certifications, audit,
                   refresh_vars, pool_vars>>

\* line 435: build_results_embed takes the status from the row fetched at the
\* start and reads the counts and the office results
auto_update_build(t) ==
    /\ pc[t] = "au_build"
    /\ Goto(t, "au_send",
            [ kind |-> "refresh", election_id |-> local[t].election_id,
              status |-> local[t].status,
              last |-> local[t].last, msg_id |-> local[t].msg_id,
              submitted |-> CountSubmitted(ballots, local[t].election_id),
              accepted |-> CountAccepted(ballots, local[t].election_id) ])
    /\ UNCHANGED <<elections, candidates, ballots, certifications, audit,
                   refresh_vars, pool_vars>>

\* one post or edit in the results channel by a call with the values l: the
\* message it made or changed, the results_message_id (msg_id) the call had read
\* from the election row, and the status and counts the embed shows
Refresh(l, kind, mid, at) ==
    [ election_id |-> l.election_id, kind |-> kind, message_id |-> mid, at |-> at,
      msg_id |-> l.msg_id,
      status |-> l.status, submitted |-> l.submitted, accepted |-> l.accepted ]

\* lines 438-454: the stored message is edited; if there is none, or it is gone
\* (NotFound, Forbidden), a new message is sent.  A discord.HTTPException ends
\* the call (lines 461-462)
auto_update_send(t) ==
    /\ pc[t] = "au_send"
    /\ LET l == local[t] IN
       \E ok \in BOOLEAN, found \in BOOLEAN :
          IF ~ok
          THEN Return(t, "NONE") /\ UNCHANGED results_channel
          ELSE IF l.msg_id # NoId /\ found
          THEN /\ results_channel' =
                    Append(results_channel, Refresh(l, "edit", l.msg_id, clock))
               /\ Goto(t, "au_last", l)
          ELSE /\ results_channel' =
                    Append(results_channel,
                           Refresh(l, "post", Len(results_channel) + 1, clock))
               /\ Goto(t, "au_message_id",
                       [ l EXCEPT !.msg_id = Len(results_channel) + 1 ])
    /\ UNCHANGED <<elections, candidates, ballots, certifications, audit,
                   clock, reporting, pool_vars>>

\* lines 445-448, 451-454: UPDATE elections SET results_message_id
auto_update_message_id(t) ==
    /\ pc[t] = "au_message_id"
    /\ reporting' = [ reporting EXCEPT ![local[t].election_id].results_message_id =
                                          local[t].msg_id ]
    /\ Goto(t, "au_last", local[t])
    /\ UNCHANGED <<elections, candidates, ballots, certifications, audit,
                   clock, results_channel, pool_vars>>

\* lines 456-459: UPDATE elections SET last_results_update_at=NOW()
auto_update_last(t) ==
    /\ pc[t] = "au_last"
    /\ reporting' = [ reporting EXCEPT ![local[t].election_id].last_results_update_at =
                                          clock ]
    /\ Return(t, "NONE")
    /\ UNCHANGED <<elections, candidates, ballots, certifications, audit,
                   clock, results_channel, pool_vars>>

RefreshNext ==
    \/ Tick
    \/ \E t \in Tasks :
          \/ auto_update_fetch(t)
          \/ auto_update_throttle(t)
          \/ auto_update_build(t)
          \/ auto_update_send(t)
          \/ auto_update_message_id(t)
          \/ auto_update_last(t)

SpecRefresh == RefreshInit /\ [][RefreshNext]_vars

\* ------------------------------------------ handlers that end with a refresh
\* a CLOSED House election with one candidate and one PENDING ballot; nothing
\* has been posted for it yet
ShowInit ==
    /\ elections = Upd(<< >>, "E1",
                       [ status |-> "CLOSED", election_type |-> "GENERAL",
                         include_house |-> TRUE, include_senate |-> FALSE,
                         include_pres |-> FALSE ])
    /\ candidates = SubSeq(TabCandidates, 1, 1)
    /\ ballots = << [ election_id |-> "E1", voter_id |-> 1,
                      house_choices |-> <<1>>, senate_choices |-> << >>,
                      pres_choice |-> NoId, status |-> "PENDING",
                      reviewed_by |-> NoId, reject_reason |-> NoText ] >>
    /\ certifications = << >>
    /\ pc = [ t \in Tasks |-> "idle" ]
    /\ local = [ t \in Tasks |-> NoLocal ]
    /\ resp = "NONE"
    /\ audit = {}
    /\ NoRefresh
    /\ PoolReady

\* what a handler passes to post_or_edit_auto_update
RefreshCall(eid) == [ kind |-> "refresh", election_id |-> eid ]

\* ReviewView.accept, lines 1131-1146: the UPDATE, the reply, then the call of
\* post_or_edit_auto_update
accept_and_refresh(t) ==
    /\ pc[t] = "review"
    /\ ballots' = ReviewUpdate(ballots, local[t].ballot_id, "ACCEPTED", FecUser(t), NoText)
    /\ Goto(t, "au_call", RefreshCall(local[t].election_id))
    /\ UNCHANGED <<elections, candidates, certifications, audit, refresh_vars, pool_vars>>

\* election_certify, lines 1295-1298: the status UPDATE, then the call of
\* post_or_edit_auto_update
election_certify_flip_and_refresh(t) ==
    /\ pc[t] = "cert_flip"
    /\ elections' = [elections EXCEPT ![local[t].election_id].status = "CERTIFIED"]
    /\ Goto(t, "au_call", RefreshCall(local[t].election_id))
    /\ UNCHANGED <<candidates, ballots, certifications, audit, refresh_vars, pool_vars>>

\* lines 420-429 inside a handler: the election row is fetched
auto_update_called(t) ==
    /\ pc[t] = "au_call"
    /\ auto_update_row(t, local[t].election_id)
    /\ UNCHANGED <<elections, candidates, ballots, certifications, audit,
                   refresh_vars, pool_vars>>

\* reviewers and certifying members at work while time passes
ShowNext ==
    \/ Tick
    \/ \E t \in Tasks :
          \/ ballots_next(t)
          \/ accept_and_refresh(t)
          \/ election_certify_check(t)
          \/ election_certify_submitted(t)
          \/ election_certify_accepted(t)
          \/ election_certify_house(t)
          \/ election_certify_upsert(t)
          \/ election_certify_flip_and_refresh(t)
          \/ auto_update_called(t)
          \/ auto_update_throttle(t)
          \/ auto_update_build(t)
          \/ auto_update_send(t)
          \/ auto_update_message_id(t)
          \/ auto_update_last(t)

SpecShow == ShowInit /\ [][ShowNext]_vars

\* ---------------------------------------------------------- ensure_db_pool
\* the process before any pool exists (setup_hook has not run, or its
\* ensure_db_pool call failed): DB_POOL is None and DB_LOCK is free
PoolInit ==
    /\ elections = << >>
    /\ candidates = << >>
    /\ ballots = << >>
    /\ certifications = << >>
    /\ pc = [ t \in Tasks |-> "idle" ]
    /\ local = [ t \in Tasks |-> NoLocal ]
    /\ resp = "NONE"
    /\ audit = {}
    /\ NoRefresh
    /\ DB_POOL = NoId
    /\ DB_LOCK = 0
    /\ create_pool_calls = << >>
    /\ schema_pools = {}

\* what a caller of ensure_db_pool holds
PoolLocal(pool) == [ kind |-> "pool", pool |-> pool ]

\* the callers queued on DB_LOCK
LockWaiters == { u \in Tasks : pc[u] = "edp_wait" }

\* lines 218-222, caller without a wait: the first test returns the pool; else
\* DB_LOCK is taken at once when it is free and nobody is queued (the second
\* test then finds DB_POOL as the first did), and is waited for otherwise
ensure_db_pool_enter(t) ==
    /\ pc[t] = "idle"
    /\ IF DB_POOL # NoId
       THEN Goto(t, "has_pool", PoolLocal(DB_POOL)) /\ UNCHANGED DB_LOCK
       ELSE IF DB_LOCK = 0 /\ LockWaiters = {}
       THEN Goto(t, "edp_create", PoolLocal(NoId)) /\ DB_LOCK' = t
       ELSE Goto(t, "edp_wait", PoolLocal(NoId)) /\ UNCHANGED DB_LOCK
    /\ UNCHANGED <<elections, candidates, ballots, certifications, audit,
                   refresh_vars, DB_POOL, create_pool_calls, schema_pools>>

\* a queued caller that creates a pool without the second test
ensure_db_pool_acquired_NoRecheck(t) ==
    /\ pc[t] = "edp_wait"
    /\ DB_LOCK = 0
    /\ Goto(t, "edp_create", local[t]) /\ DB_LOCK' = t
    /\ UNCHANGED <<elections, candidates, ballots, certifications, audit,
                   refresh_vars, DB_POOL, create_pool_calls, schema_pools>>

\* lines 220-222, queued caller: it gets DB_LOCK when it is free; the second
\* test returns the pool a previous holder created (the lock is released)
ensure_db_pool_acquired(t) ==
    /\ pc[t] = "edp_wait"
    /\ DB_LOCK = 0
    /\ IF DB_POOL # NoId
       THEN Goto(t, "has_pool", PoolLocal(DB_POOL)) /\ UNCHANGED DB_LOCK
       ELSE Goto(t, "edp_create", local[t]) /\ DB_LOCK' = t
    /\ UNCHANGED <<elections, candidates, ballots, certifications, audit,
                   refresh_vars, DB_POOL, create_pool_calls, schema_pools>>

\* lines 223-224: create_pool returns a pool, which is assigned to DB_POOL, or
\* raises, which releases DB_LOCK and leaves DB_POOL None
ensure_db_pool_create(t) ==
    /\ pc[t] = "edp_create"
    /\ Len(create_pool_calls) < MaxCreateCalls
    /\ \E ok \in BOOLEAN :
         /\ create_pool_calls' = Append(create_pool_calls, ok)
         /\ IF ok
            THEN /\ DB_POOL' = Len(create_pool_calls) + 1
                 /\ Goto(t, "edp_schema", local[t])
                 /\ UNCHANGED DB_LOCK
            ELSE /\ Return(t, "ERROR")
                 /\ DB_LOCK' = 0
                 /\ UNCHANGED DB_POOL
    /\ UNCHANGED <<elections, candidates, ballots, certifications, audit, refresh_vars,
                   schema_pools>>

\* lines 225-226: ensure_schema runs on the new pool; the pool is returned, or
\* ensure_schema raises; DB_LOCK is released either way and DB_POOL stays set
ensure_db_pool_schema(t) ==
    /\ pc[t] = "edp_schema"
    /\ \E ok \in BOOLEAN :
         IF ok
         THEN /\ Goto(t, "has_pool", PoolLocal(DB_POOL))
              /\ schema_pools' = schema_pools \cup {DB_POOL}
         ELSE /\ Return(t, "ERROR")
              /\ UNCHANGED schema_pools
    /\ DB_LOCK' = 0
    /\ UNCHANGED <<elections, candidates, ballots, certifications, audit,
                   refresh_vars, DB_POOL, create_pool_calls>>

\* the caller (a handler, through db()) is done with the pool it was given
db_caller_done(t) ==
    /\ pc[t] = "has_pool"
    /\ Return(t, "NONE")
    /\ UNCHANGED <<elections, candidates, ballots, certifications, audit,
                   refresh_vars, pool_vars>>

PoolNext ==
    \E t \in Tasks :
       \/ ensure_db_pool_enter(t)
       \/ ensure_db_pool_acquired(t)
       \/ ensure_db_pool_create(t)
       \/ ensure_db_pool_schema(t)
       \/ db_caller_done(t)

SpecPool == PoolInit /\ [][PoolNext]_vars

\* ------------------------------------------------------ certification inputs
\* the offices of the elections that are certified: one office, or all three
CertifyInputs == CreateInputs \cup { <<"GENERAL", TRUE, TRUE, TRUE>> }

\* the ballot rows an election with these offices can hold: a VoteView offers
\* the included offices only (lines 812-875)
CertRows(inp) ==
    { r \in TabRows :
        /\ ~inp[2] => r.house_choices = << >>
        /\ ~inp[3] => r.senate_choices = << >>
        /\ ~inp[4] => r.pres_choice = NoId }

\* a CLOSED election with its candidates and reviewed or unreviewed ballots
CertInit ==
    /\ \E inp \in CertifyInputs :
         /\ elections = Upd(<< >>, "E1",
                            [ status |-> "CLOSED", election_type |-> inp[1],
                              include_house |-> inp[2], include_senate |-> inp[3],
                              include_pres |-> inp[4] ])
         /\ \E n \in 0..MaxTabBallots :
              \E f \in [1..n -> CertRows(inp)] : ballots = TabBallots(f)
    /\ candidates = TabCandidates
    /\ certifications = << >>
    /\ pc = [ t \in Tasks |-> "idle" ]
    /\ local = [ t \in Tasks |-> NoLocal ]
    /\ resp = "NONE"
    /\ audit = {}
    /\ NoRefresh
    /\ PoolReady

\* one member certifies the election
CertNext ==
    \/ election_certify_check(1)
    \/ election_certify_submitted(1)
    \/ election_certify_accepted(1)
    \/ election_certify_house(1)
    \/ election_certify_senate(1)
    \/ election_certify_pres(1)
    \/ election_certify_upsert(1)
    \/ election_certify_flip(1)
    \/ store_failure(1)

SpecCertify == CertInit /\ [][CertNext]_vars

\* --------------------------------------------------------- election_report
\* build_results_embed, lines 400-415: one office_results call per included
\* office, in the order House, Senate, President
ReportNext(l, after) ==
    IF after = "stats" /\ l.include_house THEN "rep_house"
    ELSE IF after \in {"stats", "house"} /\ l.include_senate THEN "rep_senate"
    ELSE IF after \in {"stats", "house", "senate"} /\ l.include_pres THEN "rep_pres"
    ELSE "rep_send"

\* res[:3] of build_results_embed
Top3(rows) == SubSeq(rows, 1, Min(Len(rows), 3))

\* lines 1355-1359: fetch the election
election_report_fetch(t) ==
    /\ pc[t] = "idle"
    /\ \E eid \in ElectionIds :
         IF ~Exists(eid) THEN Return(t, "NOT_FOUND")
         ELSE Goto(t, "rep_submitted",
                   [ kind |-> "report", election_id |-> eid,
                     status |-> elections[eid].status,
                     include_house |-> elections[eid].include_house,
                     include_senate |-> elections[eid].include_senate,
                     include_pres |-> elections[eid].include_pres,
                     submitted |-> 0, accepted |-> 0, pct |-> 0,
                     house |-> << >>, senate |-> << >>, pres |-> << >> ])
    /\ UNCHANGED <<elections, candidates, ballots, certifications, audit,
                   refresh_vars, pool_vars>>

\* reporting_stats, line 340: the first COUNT
election_report_submitted(t) ==
    /\ pc[t] = "rep_submitted"
    /\ Goto(t, "rep_accepted",
            [ local[t] EXCEPT !.submitted = CountSubmitted(ballots, local[t].election_id) ])
    /\ UNCHANGED <<elections, candidates, ballots, certifications, audit,
                   refresh_vars, pool_vars>>

\* reporting_stats, lines 341-346: the second COUNT, then
\* (accepted / submitted * 100.0) if submitted else 0.0
election_report_accepted(t) ==
    /\ pc[t] = "rep_accepted"
    /\ LET accepted == CountAccepted(ballots, local[t].election_id) IN
       Goto(t, ReportNext(local[t], "stats"),
            [ local[t] EXCEPT !.accepted = accepted,
                              !.pct = Pct(accepted, local[t].submitted) ])
    /\ UNCHANGED <<elections, candidates, ballots, certifications, audit,
                   refresh_vars, pool_vars>>

election_report_house(t) ==
    /\ pc[t] = "rep_house"
    /\ Goto(t, ReportNext(local[t], "house"),
            [ local[t] EXCEPT !.house =
                Top3(office_results(ballots, candidates, local[t].election_id,
                                    "HOUSE").results) ])
    /\ UNCHANGED <<elections, candidates, ballots, certifications, audit,
                   refresh_vars, pool_vars>>

election_report_senate(t) ==
    /\ pc[t] = "rep_senate"
    /\ Goto(t, ReportNext(local[t], "senate"),
            [ local[t] EXCEPT !.senate =
                Top3(office_results(ballots, candidates, local[t].election_id,
                                    "SENATE").results) ])
    /\ UNCHANGED <<elections, candidates, ballots, certifications, audit,
                   refresh_vars, pool_vars>>

election_report_pres(t) ==
    /\ pc[t] = "rep_pres"
    /\ Goto(t, "rep_send",
            [ local[t] EXCEPT !.pres =
                Top3(office_results(ballots, candidates, local[t].election_id,
                                    "PRESIDENT").results) ])
    /\ UNCHANGED <<elections, candidates, ballots, certifications, audit,
                   refresh_vars, pool_vars>>

\* line 1362: the embed is sent
election_report_send(t) ==
    /\ pc[t] = "rep_send"
    /\ Return(t, "REPORT")
    /\ UNCHANGED <<elections, candidates, ballots, certifications, audit,
                   refresh_vars, pool_vars>>

\* one user asks for the report of the stored data
ReportSteps ==
    \/ election_report_fetch(1)
    \/ election_report_submitted(1)
    \/ election_report_accepted(1)
    \/ election_report_house(1)
    \/ election_report_senate(1)
    \/ election_report_pres(1)
    \/ election_report_send(1)

SpecReport == TabInit /\ [][ReportSteps]_vars

\* ----------------------------------------------------------- registration
\* add_candidate arguments that repeat an (office, rp_name) with another party
\* and district
RegisterInputs == CandidateInputs \cup { <<"HOUSE", "A", "REP", "TX", 2>> }

\* a DRAFT election without candidates
RegisterInit ==
    /\ \E inp \in CertifyInputs :
         elections = Upd(<< >>, "E1",
                         [ status |-> "DRAFT", election_type |-> inp[1],
                           include_house |-> inp[2], include_senate |-> inp[3],
                           include_pres |-> inp[4] ])
    /\ candidates = << >>
    /\ ballots = << >>
    /\ certifications = << >>
    /\ pc = [ t \in Tasks |-> "idle" ]
    /\ local = [ t \in Tasks |-> NoLocal ]
    /\ resp = "NONE"
    /\ audit = {}
    /\ NoRefresh
    /\ PoolReady

\* add_candidate up to its INSERT, for any of the arguments
add_candidate_begin(t) ==
    /\ pc[t] = "idle"
    /\ \E eid \in ElectionIds, inp \in RegisterInputs : add_candidate_validate(t, eid, inp)
    /\ UNCHANGED <<elections, candidates, ballots, certifications, audit, refresh_vars, pool_vars>>

\* the members register candidates, concurrently
RegisterNext ==
    \E t \in Tasks :
       \/ add_candidate_begin(t)
       \/ add_candidate_insert(t)
       \/ store_failure(t)

SpecRegister == RegisterInit /\ [][RegisterNext]_vars

\* ------------------------------------------------- report during the polls
\* an OPEN House election with one candidate; no ballot yet, or the PENDING
\* ballot of a voter who is not among the sessions
StatsInit ==
    /\ elections = Upd(<< >>, "E1",
                       [ status |-> "OPEN", election_type |-> "GENERAL",
                         include_house |-> TRUE, include_senate |-> FALSE,
                         include_pres |-> FALSE ])
    /\ candidates = SubSeq(TabCandidates, 1, 1)
    /\ ballots \in { << >>,
                      << [ election_id |-> "E1", voter_id |-> NumVoters + 1,
                           house_choices |-> <<1>>, senate_choices |-> << >>,
                           pres_choice |-> NoId, status |-> "PENDING",
                           reviewed_by |-> NoId, reject_reason |-> NoText ] >> }
    /\ certifications = << >>
    /\ pc = [ t \in Tasks |-> "idle" ]
    /\ local = [ t \in Tasks |-> NoLocal ]
    /\ resp = "NONE"
    /\ audit = {}
    /\ NoRefresh
    /\ PoolReady

\* one member asks for the report while the other sessions vote and review
StatsNext ==
    \/ election_report_fetch(1)
    \/ election_report_submitted(1)
    \/ election_report_accepted(1)
    \/ election_report_house(1)
    \/ election_report_send(1)
    \/ \E t \in Tasks \ {1} :
          \/ vote(t)
          \/ on_house_change(t)
          \/ submit_check(t)
          \/ submit_insert(t)
          \/ ballots_next(t)
          \/ accept(t)
          \/ reject(t)
          \/ RejectModal_on_submit(t)
          \/ view_timeout(t)
          \/ store_failure(t)

SpecStats == StatsInit /\ [][StatsNext]_vars

\* ------------------------------------------------- review during the polls
\* an OPEN House election with one candidate and the PENDING ballots of voters
\* who are not among the sessions
LiveInit ==
    /\ elections = Upd(<< >>, "E1",
                       [ status |-> "OPEN", election_type |-> "GENERAL",
                         include_house |-> TRUE, include_senate |-> FALSE,
                         include_pres |-> FALSE ])
    /\ candidates = SubSeq(TabCandidates, 1, 1)
    /\ \E n \in 0..MaxTabBallots :
         ballots = [ i \in 1..n |->
                       [ election_id |-> "E1", voter_id |-> NumVoters + i,
                         house_choices |-> <<1>>, senate_choices |-> << >>,
                         pres_choice |-> NoId, status |-> "PENDING",
                         reviewed_by |-> NoId, reject_reason |-> NoText ] ]
    /\ certifications = << >>
    /\ pc = [ t \in Tasks |-> "idle" ]
    /\ local = [ t \in Tasks |-> NoLocal ]
    /\ resp = "NONE"
    /\ audit = {}
    /\ NoRefresh
    /\ PoolReady

\* a VoteView times out (timeout=300, line 810)
vote_view_timeout(t) == pc[t] = "view" /\ view_timeout(t)

\* a reviewer resolves the ballot on screen: Accept, or Reject and the modal
resolve(t) == accept(t) \/ reject(t) \/ RejectModal_on_submit(t)

\* the sessions vote and review; a ballot that is shown is resolved
LiveNext ==
    \E t \in Tasks :
       \/ vote(t)
       \/ on_house_change(t)
       \/ submit_check(t)
       \/ submit_insert(t)
       \/ vote_view_timeout(t)
       \/ ballots_next(t)
       \/ accept(t)
       \/ reject(t)
       \/ RejectModal_on_submit(t)

\* every session asks for the next pending ballot again and again and resolves
\* the ballot it is shown; a statement that is awaited is run by the event loop;
\* a VoteView does not stay open for ever
LiveFairness ==
    \A t \in Tasks :
       /\ SF_vars(ballots_next(t))
       /\ WF_vars(resolve(t))
       /\ WF_vars(submit_insert(t))
       /\ SF_vars(vote_view_timeout(t))

SpecLive == LiveInit /\ [][LiveNext]_vars /\ LiveFairness

\* ------------------------------------------------------------ review queue
\* FEC members work through the stored ballots: each asks for the next pending
\* ballot and accepts it, rejects it with a reason, or lets the view time out
QueueNext ==
    \E t \in Tasks :
       \/ ballots_next(t)
       \/ accept(t)
       \/ reject(t)
       \/ RejectModal_on_submit(t)
       \/ view_timeout(t)

SpecQueue == TabInit /\ [][QueueNext]_vars

TypeOK ==
    /\ \A e \in DOMAIN elections :
         elections[e].status \in {"DRAFT", "OPEN", "CLOSED", "CERTIFIED"}
    /\ \A i \in DOMAIN ballots : ballots[i].status \in {"PENDING", "ACCEPTED", "REJECTED"}
\* ================================================================ claims

\* C1: at most one ballot row per (election, voter) in every reachable state;
\* a submission INSERT that runs when the voter already has a row reports the
\* duplicate and adds no row
C1_OneBallotPerVoter ==
    /\ [](\A i, j \in DOMAIN ballots :
            ballots[i].election_id = ballots[j].election_id
              /\ ballots[i].voter_id = ballots[j].voter_id => i = j)
    /\ [][\A t \in Tasks :
            submit_insert(t) /\ HasBallot(ballots, local[t].election_id, local[t].voter)
              => resp' = "ALREADY_SUBMITTED" /\ ballots' = ballots]_vars

\* a second submission of the same voter has been turned down, the first row stored
C1_Witness ==
    /\ resp = "ALREADY_SUBMITTED"
    /\ \E t \in Tasks : pc[t] = "view" /\ HasBallot(ballots, local[t].election_id, local[t].voter)

\* C2: a ballot row changes only from PENDING, to ACCEPTED or REJECTED, and then
\* holds exactly what the one review call that changed it wrote; a reviewed row
\* is never written again
C2_ReviewChangesOnce ==
    [][\A i \in DOMAIN ballots :
         ballots'[i] # ballots[i] =>
           /\ ballots[i].status = "PENDING"
           /\ \E t \in Tasks :
                \/ /\ pc[t] = "review" /\ local[t].ballot_id = i
                   /\ ballots'[i] = [ ballots[i] EXCEPT !.status = "ACCEPTED",
                                                        !.reviewed_by = FecUser(t),
                                                        !.reject_reason = NoText ]
                \/ /\ pc[t] = "modal" /\ local[t].ballot_id = i
                   /\ \E reason \in Reasons :
                        ballots'[i] = [ ballots[i] EXCEPT !.status = "REJECTED",
                                                          !.reviewed_by = FecUser(t),
                                                          !.reject_reason = reason ]]_vars

\* a reject call has run against a ballot another reviewer had already accepted
C2_Witness ==
    /\ resp = "BALLOT_REJECTED"
    /\ \E i \in DOMAIN ballots :
         ballots[i].status = "ACCEPTED" /\ ballots[i].reviewed_by # NoId

\* C3: a review call reports that it accepted or rejected the ballot only if its
\* conditional update changed a PENDING row (the loser of a race is not told
\* that it succeeded)
C3_OnlyWinnerReportsSuccess ==
    [][resp' \in {"BALLOT_ACCEPTED", "BALLOT_REJECTED"} =>
         \E i \in DOMAIN ballots :
            ballots[i].status = "PENDING" /\ ballots'[i].status # "PENDING"]_vars

\* C4: a certify that has written the snapshot also sets the status to CERTIFIED
\* (it never stops between its two writes), and a CERTIFIED election has a snapshot
C4_CertifyAtomic ==
    /\ [](\A e \in DOMAIN elections :
            elections[e].status = "CERTIFIED" => e \in DOMAIN certifications)
    /\ [][\A t \in Tasks :
            pc[t] = "cert_flip" /\ pc'[t] # "cert_flip"
              => elections'[local[t].election_id].status = "CERTIFIED"]_vars

\* C5: the status immediately before a write that sets CERTIFIED is CLOSED, and
\* certify on an election that is not CLOSED fails and changes nothing
C5_CertifiedOnlyFromClosed ==
    [][/\ \A e \in DOMAIN elections :
            elections'[e].status = "CERTIFIED" /\ elections[e].status # "CERTIFIED"
              => elections[e].status = "CLOSED"
       /\ \A t \in Tasks :
            election_certify_check(t) /\ resp' = "NOT_CLOSED"
              => UNCHANGED <<elections, candidates, ballots, certifications>>]_vars

\* C6: the status of a CERTIFIED election changes only by the UPDATE of a revert
C6_CertifiedLeftOnlyByRevert ==
    [][\A e \in DOMAIN elections :
         elections[e].status = "CERTIFIED" /\ elections'[e].status # "CERTIFIED"
           => \E t \in Tasks : election_uncertify_update(t)]_vars

\* C7: with one operation at a time, every status change is one of
\* DRAFT->OPEN, CLOSED->OPEN, OPEN->CLOSED, CLOSED->CERTIFIED, CERTIFIED->CLOSED
DefinedTransitions ==
    { <<"DRAFT", "OPEN">>, <<"CLOSED", "OPEN">>, <<"OPEN", "CLOSED">>,
      <<"CLOSED", "CERTIFIED">>, <<"CERTIFIED", "CLOSED">> }

C7_OnlyDefinedTransitions ==
    [][\A e \in DOMAIN elections :
         elections'[e].status # elections[e].status
           => <<elections[e].status, elections'[e].status>> \in DefinedTransitions]_vars

\* C8: no ballot row of an election changes while that election is CERTIFIED
C8_NoReviewWhileCertified ==
    [][\A i \in DOMAIN ballots :
         elections[ballots[i].election_id].status = "CERTIFIED"
           => ballots'[i] = ballots[i]]_vars

\* C9: the snapshot of a CERTIFIED election equals the live tabulation
SnapshotIsLive(e) ==
    /\ e \in DOMAIN certifications
    /\ certifications[e].submitted_ballots = CountSubmitted(ballots, e)
    /\ certifications[e].accepted_ballots = CountAccepted(ballots, e)
    /\ elections[e].include_house =>
         certifications[e].house_snapshot = snapshot_office(ballots, candidates, e, "HOUSE")
    /\ elections[e].include_senate =>
         certifications[e].senate_snapshot = snapshot_office(ballots, candidates, e, "SENATE")
    /\ elections[e].include_pres =>
         certifications[e].pres_snapshot = snapshot_office(ballots, candidates, e, "PRESIDENT")

C9_CertifiedSnapshotIsLive ==
    \A e \in DOMAIN elections : elections[e].status = "CERTIFIED" => SnapshotIsLive(e)

\* C10: a ballot row is inserted only while its election is OPEN
C10_InsertOnlyWhileOpen ==
    [][Len(ballots') > Len(ballots) =>
         elections[ballots'[Len(ballots')].election_id].status = "OPEN"]_vars

\* the kind of failure a status-check message reports: the messages that name
\* the CERTIFIED lock, and the messages that say the status is not the one needed
ErrorKind(msg) ==
    IF msg \in {"CANDIDATES_LOCKED", "CANNOT_REOPEN", "CANNOT_CHANGE_STATUS"}
    THEN "LockedError"
    ELSE IF msg \in {"POLLS_NOT_OPEN", "VOTE_NOT_OPEN", "NOT_CLOSED", "NOT_CERTIFIED"}
    THEN "InvalidStateError"
    ELSE "none"

AllCertified == \A eid \in ElectionIds : Exists(eid) /\ elections[eid].status = "CERTIFIED"

C12_NoInsertWhileCertified ==
    [][Len(candidates') > Len(candidates) =>
         elections[candidates'[Len(candidates')].election_id].status # "CERTIFIED"]_vars

\* C13: the election_certifications table holds one row per election_id; a
\* certify that runs after a revert replaces the stored row, and the row it
\* leaves holds the submitted and accepted counts and the office results of the
\* store at that certify, whatever the earlier certification had recorded
C13_RecertifyOverwrites ==
    [][\A t \in Tasks : \A e \in ElectionIds :
         election_certify_upsert(t) /\ local[t].election_id = e
           => /\ e \in DOMAIN certifications
              /\ DOMAIN certifications' = DOMAIN certifications
              /\ SnapshotIsLive(e)'
              /\ certifications'[e].certified_by = FecUser(t)]_vars

\* the election is CERTIFIED again and its snapshot records one accepted ballot,
\* where the snapshot of the first certification recorded none
C13_Witness ==
    /\ elections["E1"].status = "CERTIFIED"
    /\ certifications["E1"].accepted_ballots = 1
    /\ certifications["E1"].submitted_ballots = 1
    /\ CountAccepted(ballots, "E1") = 1

\* C14: with one operation at a time, election_uncertify goes past its check
\* only on a CERTIFIED election; its UPDATE then finds the status CERTIFIED and
\* sets it to CLOSED, and no step of the command changes anything else in the
\* store (snapshot, ballots, candidates, every other field of the election);
\* on any other status the command fails at its check and changes nothing
C14_RevertOnlyFlipsStatus ==
    [][\A t \in Tasks :
         /\ election_uncertify_check(t)
              => /\ UNCHANGED <<elections, candidates, ballots, certifications, audit>>
                 /\ \/ pc'[t] = "idle" /\ resp' \in {"NOT_FOUND", "NOT_CERTIFIED"}
                    \/ pc'[t] = "uncert_update"
                         /\ elections[local'[t].election_id].status = "CERTIFIED"
         /\ election_uncertify_check(t)
              /\ (\A eid \in ElectionIds : Exists(eid) /\ elections[eid].status # "CERTIFIED")
              => pc'[t] = "idle" /\ resp' = "NOT_CERTIFIED"
         /\ pc[t] = "uncert_update" /\ pc'[t] = "uncert_log"
              => /\ elections[local[t].election_id].status = "CERTIFIED"
                 /\ elections' = [elections EXCEPT ![local[t].election_id].status = "CLOSED"]
                 /\ UNCHANGED <<candidates, ballots, certifications>>
         /\ pc[t] = "uncert_log" /\ pc'[t] # "uncert_log"
              => /\ resp' = "REVERTED"
                 /\ UNCHANGED <<elections, candidates, ballots, certifications>>
         /\ pc[t] # "uncert_log" => ~(pc'[t] = "idle" /\ resp' = "REVERTED" /\ pc[t] # "idle")]_vars

\* a revert has completed: the election is CLOSED, its snapshot and its ballot
\* are still stored
C14_Witness ==
    /\ resp = "REVERTED"
    /\ elections["E1"].status = "CLOSED"
    /\ "E1" \in DOMAIN certifications
    /\ certifications["E1"].submitted_ballots = 1
    /\ Len(ballots) = 1 /\ Len(candidates) = 1

\* C15: every revert that has set a CERTIFIED election to CLOSED leaves, when the
\* command ends, a line in the log channel naming the election, the reverting
\* member and a non-empty reason
C15_EveryRevertAudited ==
    [][\A t \in Tasks :
         pc[t] = "uncert_log" /\ pc'[t] = "idle"
           => \E r \in audit' : /\ r.election_id = local[t].election_id
                                /\ r.by = FecUser(t)
                                /\ r.reason # ""]_vars

\* ------------------------------------------------ claims about office_results
\* the stored ballots that are ACCEPTED, in their stored order
AcceptedOnly(bs) == SelectSeq(bs, LAMBDA b : b.status = "ACCEPTED")

\* what office_results returns for an office on the stored data
Live(office) == office_results(ballots, candidates, "E1", office)

\* the election_results command has made its three office_results calls
Queried(t) == pc[t] = "res_send"

\* C16: office_results on the stored ballots returns what it returns on the
\* ACCEPTED ballots alone, so the PENDING and REJECTED rows (how many there are,
\* what they select) change no reported count or total; the results a command
\* has fetched are these
C16_OnlyAcceptedCounted ==
    /\ \A office \in Offices :
         Live(office) = office_results(AcceptedOnly(ballots), candidates, "E1", office)
    /\ \A t \in Tasks :
         Queried(t) =>
           /\ local[t].house = office_results(AcceptedOnly(ballots), candidates, "E1", "HOUSE")
           /\ local[t].senate = office_results(AcceptedOnly(ballots), candidates, "E1", "SENATE")
           /\ local[t].pres = office_results(AcceptedOnly(ballots), candidates, "E1", "PRESIDENT")

\* results were fetched while an ACCEPTED and a REJECTED ballot both select
\* House candidate 1: one vote is reported
C16_Witness ==
    /\ Queried(1)
    /\ Len(ballots) = 2
    /\ ballots[1].status = "ACCEPTED" /\ ballots[1].house_choices = <<1>>
    /\ ballots[2].status = "REJECTED" /\ ballots[2].house_choices = <<1, 2>>
    /\ local[1].house.total = 1

\* ballot b selects candidate c for the office
Selects(b, office, c) ==
    IF office = "PRESIDENT" THEN b.pres_choice = c
    ELSE IF office = "HOUSE" THEN c \in Range(b.house_choices)
    ELSE c \in Range(b.senate_choices)

\* the ACCEPTED ballots of E1 that select candidate c for the office
AcceptedSelecting(office, c) ==
    { i \in DOMAIN ballots : /\ ballots[i].election_id = "E1"
                             /\ ballots[i].status = "ACCEPTED"
                             /\ Selects(ballots[i], office, c) }

\* the (accepted ballot, selection) pairs of the office
SelectionPairs(office) ==
    { <<i, c>> \in (DOMAIN ballots) \X (DOMAIN candidates) :
        candidates[c].office = office /\ i \in AcceptedSelecting(office, c) }

RECURSIVE SumVotes(_)
SumVotes(rows) == IF rows = << >> THEN 0 ELSE Head(rows).votes + SumVotes(Tail(rows))

LabelOf(c) ==
    candidate_label(candidates[c].office, candidates[c].rp_name, candidates[c].party,
                    candidates[c].state, candidates[c].district)

\* C17: for each office, a candidate selected by n > 0 ACCEPTED ballots has exactly
\* one result row, with n votes; a candidate selected by none has no row; the
\* total and the sum of the rows' votes are the number of (accepted ballot,
\* selection) pairs of the office
C17_VotesAreAcceptedSelections ==
    \A office \in Offices :
      LET r == Live(office)
          running == { c \in DOMAIN candidates : candidates[c].office = office }
      IN  /\ \A c \in running :
               LET n == Cardinality(AcceptedSelecting(office, c))
                   mine == { i \in DOMAIN r.results : r.results[i].label = LabelOf(c) }
               IN  IF n = 0 THEN mine = {}
                   ELSE Cardinality(mine) = 1 /\ \A i \in mine : r.results[i].votes = n
          /\ Len(r.results) =
               Cardinality({ c \in running : AcceptedSelecting(office, c) # {} })
          /\ r.total = Cardinality(SelectionPairs(office))
          /\ SumVotes(r.results) = Cardinality(SelectionPairs(office))

\* two ACCEPTED ballots, one selecting both House candidates and the President,
\* one selecting House candidate 2: three House votes, one for President
C17_Witness ==
    /\ Queried(1)
    /\ Len(ballots) = 2
    /\ ballots[1].status = "ACCEPTED" /\ ballots[1].house_choices = <<1, 2>>
    /\ ballots[1].pres_choice = 4
    /\ ballots[2].status = "ACCEPTED" /\ ballots[2].house_choices = <<2>>
    /\ ballots[2].pres_choice = NoId
    /\ local[1].house.total = 3 /\ local[1].house.results[1].votes = 2
    /\ local[1].pres.total = 1

\* rows in descending votes, equal votes in ascending candidate name
InResultOrder(rows) ==
    \A i, j \in DOMAIN rows :
       i < j => \/ rows[i].votes > rows[j].votes
                \/ /\ rows[i].votes = rows[j].votes
                   /\ NameRank(rows[i].label.name) < NameRank(rows[j].label.name)

\* C18: the rows office_results returns are in descending vote count, rows with
\* equal counts in ascending candidate name; the rows a command fetched are the
\* rows a further call on the same stored data returns, in the same order
C18_OrderedAndRepeatable ==
    /\ \A office \in Offices : InResultOrder(Live(office).results)
    /\ \A t \in Tasks :
         Queried(t) => /\ local[t].house = Live("HOUSE")
                       /\ local[t].senate = Live("SENATE")
                       /\ local[t].pres = Live("PRESIDENT")
                       /\ InResultOrder(local[t].house.results)

\* one ACCEPTED ballot picked House candidate B before A: the two rows have one
\* vote each and A is listed first
C18_Witness ==
    /\ Queried(1)
    /\ Len(ballots) = 1
    /\ ballots[1].status = "ACCEPTED" /\ ballots[1].house_choices = <<2, 1>>
    /\ Len(local[1].house.results) = 2
    /\ local[1].house.results[1].votes = local[1].house.results[2].votes
    /\ local[1].house.results[1].label.name = "A"

Abs(x) == IF x < 0 THEN -x ELSE x

RECURSIVE SumPct(_)
SumPct(rows) == IF rows = << >> THEN 0 ELSE Head(rows).pct + SumPct(Tail(rows))

\* C19: every reported percentage is votes/total x 100 to within the rounding of
\* the quotient and lies between 0 and 100; for a total > 0 the percentages of
\* an office add up to 100 to within one rounding per row; for a total of 0
\* nothing is divided and no row reports a percentage other than 0
C19_PercentagesAddUp ==
    /\ \A office \in Offices :
         LET r == Live(office) IN
           /\ \A i \in DOMAIN r.results :
                /\ 0 <= r.results[i].pct /\ r.results[i].pct <= 100 * PctScale
                /\ Abs(r.results[i].pct * r.total - r.results[i].votes * 100 * PctScale)
                     <= 50 * r.total
                /\ r.total = 0 => r.results[i].pct = 0
           /\ r.total > 0 =>
                Abs(SumPct(r.results) - 100 * PctScale) <= 50 * Len(r.results)
           /\ r.total = 0 => r.results = << >>
    /\ \A votes \in 0..(MaxTabBallots * HOUSE_MAX_PICKS) : Pct(votes, 0) = 0

\* House results with votes 2 and 1 of a total of 3 (66.67 and 33.33 per cent),
\* and Senate results with a total of 0
C19_Witness ==
    /\ Queried(1)
    /\ local[1].house.total = 3
    /\ local[1].house.results[1].votes = 2
    /\ local[1].house.results[1].pct = 666700
    /\ local[1].house.results[2].pct = 333300
    /\ local[1].senate.total = 0

\* ------------------------------------------------- claims about selections
NoRepeat(seq) == \A i, j \in DOMAIN seq : seq[i] = seq[j] => i = j

\* out is the first cap distinct entries of values, in the order of values
IsFirstDistinct(values, out, cap) ==
    /\ Len(out) = Min(cap, Cardinality(Range(values)))
    /\ \A k \in DOMAIN out :
         \E j \in DOMAIN values :
            /\ values[j] = out[k]
            /\ \A m \in 1..(j - 1) : values[m] # values[j]
            /\ Cardinality({ values[m] : m \in 1..(j - 1) }) = k - 1

\* the selection of the office of the view, and its cap
PickedOf(l) == IF l.include_house THEN l.house_selected ELSE l.senate_selected

CapOf(l) == IF l.include_house THEN HOUSE_MAX_PICKS ELSE SENATE_MAX_PICKS

\* C20: every stored ballot has at most HOUSE_MAX_PICKS House and at most
\* SENATE_MAX_PICKS Senate selections and no candidate twice within an office;
\* after a select callback the view holds the first cap-many distinct values of
\* the interaction, in their order; a non-empty selection is submitted whatever
\* the number of values was, and the row stored holds what the view holds
C20_CapsAndFirstDistinct ==
    /\ [](\A i \in DOMAIN ballots :
            /\ Len(ballots[i].house_choices) <= HOUSE_MAX_PICKS
            /\ Len(ballots[i].senate_choices) <= SENATE_MAX_PICKS
            /\ NoRepeat(ballots[i].house_choices)
            /\ NoRepeat(ballots[i].senate_choices))
    /\ [](\A t \in Tasks :
            pc[t] \in {"view", "submit_insert"} =>
              IsFirstDistinct(local[t].values, PickedOf(local[t]), CapOf(local[t])))
    /\ [][\A t \in Tasks :
            /\ pc[t] = "view" /\ pc'[t] # "view" /\ local[t].values # << >>
                 => pc'[t] = "submit_insert"
            /\ pc[t] = "submit_insert" /\ pc'[t] # "submit_insert" /\ ballots = << >>
                 => /\ Len(ballots') = 1
                    /\ ballots'[1].house_choices = local[t].house_selected
                    /\ ballots'[1].senate_choices = local[t].senate_selected]_vars

\* five distinct House values arrived in the order 5, 4, 3, 2, 1; the stored
\* ballot holds 5, 4, 3
C20_Witness ==
    /\ Len(ballots) = 1
    /\ ballots[1].house_choices = <<5, 4, 3>>
    /\ pc[1] = "view"
    /\ local[1].values = <<5, 4, 3, 2, 1>>

\* ------------------------------------------------- claims about ballot rows
\* the ballot has a selection in an office its election includes
HasSelection(b) ==
    \/ elections[b.election_id].include_house /\ Len(b.house_choices) > 0
    \/ elections[b.election_id].include_senate /\ Len(b.senate_choices) > 0
    \/ elections[b.election_id].include_pres /\ b.pres_choice # NoId

\* the view of task t holds no selection in any office of its election
EmptyView(t) ==
    LET l == local[t]
        e == elections[l.election_id]
    IN  /\ ~e.include_house \/ Len(l.house_selected) = 0
        /\ ~e.include_senate \/ Len(l.senate_selected) = 0
        /\ ~e.include_pres \/ l.pres_selected = NoId

\* C21: a submission from a view without any selection is answered with the
\* empty-ballot failure, the view stays and no row is stored; every stored
\* ballot has at least one selection in an office that its election includes
C21_EmptyBallotRefused ==
    /\ [](\A i \in DOMAIN ballots : HasSelection(ballots[i]))
    /\ [][\A t \in Tasks :
            submit_check(t) /\ elections[local[t].election_id].status = "OPEN" /\ EmptyView(t)
              => /\ resp' = "EMPTY_BALLOT"
                 /\ pc'[t] = "view"
                 /\ ballots' = ballots]_vars

\* an empty submission has just been refused on an OPEN election
C21_Witness ==
    /\ resp = "EMPTY_BALLOT"
    /\ ballots = << >>
    /\ \E t \in Tasks :
         pc[t] = "view" /\ elections[local[t].election_id].status = "OPEN" /\ EmptyView(t)

\* C22: no step changes the election, voter or selections of a stored ballot or
\* removes a row; an INSERT for a voter whose ballot of that election is
\* REJECTED reports the duplicate and leaves the table as it was
C22_BallotContentFixed ==
    [][/\ \A i \in DOMAIN ballots :
            /\ i \in DOMAIN ballots'
            /\ ballots'[i].election_id = ballots[i].election_id
            /\ ballots'[i].voter_id = ballots[i].voter_id
            /\ ballots'[i].house_choices = ballots[i].house_choices
            /\ ballots'[i].senate_choices = ballots[i].senate_choices
            /\ ballots'[i].pres_choice = ballots[i].pres_choice
       /\ \A t \in Tasks :
            pc[t] = "submit_insert" /\ pc'[t] # "submit_insert"
              /\ (\E i \in DOMAIN ballots : /\ ballots[i].election_id = local[t].election_id
                                             /\ ballots[i].voter_id = local[t].voter
                                             /\ ballots[i].status = "REJECTED")
              => ballots' = ballots /\ resp' \in {"ALREADY_SUBMITTED", "ERROR"}]_vars

\* the voter's ballot is REJECTED and a further submission of that voter has
\* just been turned down
C22_Witness ==
    /\ resp = "ALREADY_SUBMITTED"
    /\ Len(ballots) = 1
    /\ ballots[1].status = "REJECTED"
    /\ \E t \in Tasks : pc[t] = "view" /\ local[t].voter = ballots[1].voter_id

\* C23: a row is stored as PENDING without reviewer or reason; a PENDING row has
\* neither, an ACCEPTED row has a reviewer and no reason, a REJECTED row has a
\* reviewer and a reason of 1 to REJECT_REASON_MAX characters
C23_ReviewFieldsMatchStatus ==
    /\ [](\A i \in DOMAIN ballots :
            LET b == ballots[i] IN
              /\ b.status = "PENDING" => b.reviewed_by = NoId /\ b.reject_reason = NoText
              /\ b.status = "ACCEPTED" => b.reviewed_by # NoId /\ b.reject_reason = NoText
              /\ b.status = "REJECTED" =>
                   /\ b.reviewed_by # NoId
                   /\ b.reject_reason # NoText
                   /\ Len(b.reject_reason) >= 1
                   /\ Len(b.reject_reason) <= REJECT_REASON_MAX)
    /\ [][Len(ballots') > Len(ballots) =>
            /\ Len(ballots') = Len(ballots) + 1
            /\ ballots'[Len(ballots')].status = "PENDING"
            /\ ballots'[Len(ballots')].reviewed_by = NoId
            /\ ballots'[Len(ballots')].reject_reason = NoText]_vars

\* a ballot has just been rejected with a reason
C23_Witness ==
    /\ resp = "BALLOT_REJECTED"
    /\ \E i \in DOMAIN ballots :
         /\ ballots[i].status = "REJECTED"
         /\ ballots[i].reviewed_by # NoId
         /\ ballots[i].reject_reason \in Reasons

\* ---------------------------------------------------- claims about the queue
\* the PENDING ballots of an election; rows are stored in submission order, so
\* a smaller index is an earlier submitted_at
PendingOf(eid) ==
    { i \in DOMAIN ballots : ballots[i].election_id = eid /\ ballots[i].status = "PENDING" }

\* C24: a ballots_next call changes no stored table; it answers that nothing is
\* pending exactly when its election has no PENDING ballot, and otherwise shows
\* a PENDING ballot of that election that no other PENDING ballot of the
\* election precedes in submission order
C24_OldestPendingFirst ==
    [][\A t \in Tasks :
         pc[t] = "idle" /\ (pc'[t] # "idle" \/ resp' = "NO_PENDING")
           => /\ UNCHANGED <<elections, candidates, ballots, certifications>>
              /\ (resp' = "NO_PENDING") <=> (PendingOf("E1") = {})
              /\ (resp' = "NO_PENDING") <=> (pc'[t] = "idle")
              /\ pc'[t] # "idle" =>
                   /\ pc'[t] = "review"
                   /\ local'[t].election_id = "E1"
                   /\ local'[t].ballot_id \in PendingOf("E1")
                   /\ \A j \in PendingOf("E1") : local'[t].ballot_id <= j]_vars

\* two ballots are PENDING and the member is shown the one submitted first
C24_Witness ==
    /\ Len(ballots) = 2
    /\ ballots[1].status = "PENDING" /\ ballots[2].status = "PENDING"
    /\ \E t \in Tasks : pc[t] = "review" /\ local[t].ballot_id = 1

\* ------------------------------------------------- claims about the refreshes
\* C25: any two posts or edits of the results message of one election are at
\* least AUTO_UPDATE_MIN_SECONDS apart
C25_RefreshesSpacedApart ==
    \A i, j \in DOMAIN results_channel :
       i < j /\ results_channel[i].election_id = results_channel[j].election_id
         => results_channel[j].at - results_channel[i].at >= AUTO_UPDATE_MIN_SECONDS

\* ---------------------------------------------------- claims about the pool
\* the create_pool calls that returned a pool
PoolsCreated == { i \in DOMAIN create_pool_calls : create_pool_calls[i] }

\* C26: at most one create_pool call has returned a pool, and every caller that
\* ensure_db_pool has returned to holds that pool, which is the one in DB_POOL
C26_OnePool ==
    /\ Cardinality(PoolsCreated) <= 1
    /\ DB_POOL # NoId => PoolsCreated = {DB_POOL}
    /\ \A t \in Tasks : pc[t] = "has_pool" => PoolsCreated = {local[t].pool}

\* a first create_pool call failed, a second one made the pool, and two callers
\* hold it
C26_Witness ==
    /\ create_pool_calls = <<FALSE, TRUE>>
    /\ \A t \in Tasks : pc[t] = "has_pool" /\ local[t].pool = 2

\* ------------------------------------------------ claims about the snapshot
\* snap holds what office_results returned: the office, the total and, row by
\* row in the same order, label, votes and the percentage, which is stored
\* rounded to hundredths of a percent point
StoresResults(snap, office, r) ==
    /\ snap.office = office
    /\ snap.total_votes = r.total
    /\ Len(snap.results) = Len(r.results)
    /\ \A i \in DOMAIN r.results :
         /\ snap.results[i].label = r.results[i].label
         /\ snap.results[i].votes = r.results[i].votes
         /\ snap.results[i].pct = RoundDiv(r.results[i].pct, PctScale \div 100)

\* C27: the row the certify upsert writes holds, for every included office, the
\* office_results output on the stored data (labels, votes, percentages, total),
\* no snapshot for an office that is not included, the number of ballots and of
\* ACCEPTED ballots of the election, and the certifying member
C27_SnapshotHoldsResults ==
    [][pc[1] = "cert_upsert" /\ pc'[1] = "cert_flip" =>
         LET row == certifications'["E1"]
             e == elections["E1"]
         IN  /\ row.certified_by = FecUser(1)
             /\ row.submitted_ballots = CountSubmitted(ballots, "E1")
             /\ row.accepted_ballots = CountAccepted(ballots, "E1")
             /\ IF e.include_house
                THEN StoresResults(row.house_snapshot, "HOUSE", Live("HOUSE"))
                ELSE row.house_snapshot = NoSnap
             /\ IF e.include_senate
                THEN StoresResults(row.senate_snapshot, "SENATE", Live("SENATE"))
                ELSE row.senate_snapshot = NoSnap
             /\ IF e.include_pres
                THEN StoresResults(row.pres_snapshot, "PRESIDENT", Live("PRESIDENT"))
                ELSE row.pres_snapshot = NoSnap]_vars

\* a House-only election was certified with two ACCEPTED ballots, three House
\* selections in all: the snapshot has rows of 66.67 and 33.33 per cent, a
\* total of 3, and no Senate or President part
C27_Witness ==
    /\ elections["E1"].status = "CERTIFIED"
    /\ ~elections["E1"].include_senate /\ ~elections["E1"].include_pres
    /\ "E1" \in DOMAIN certifications
    /\ certifications["E1"].submitted_ballots = 2
    /\ certifications["E1"].accepted_ballots = 2
    /\ certifications["E1"].house_snapshot.total_votes = 3
    /\ Len(certifications["E1"].house_snapshot.results) = 2
    /\ certifications["E1"].house_snapshot.results[1].pct = 6667
    /\ certifications["E1"].house_snapshot.results[2].pct = 3333
    /\ certifications["E1"].senate_snapshot = NoSnap
    /\ certifications["E1"].pres_snapshot = NoSnap

\* ------------------------------------------------ claims about reporting_stats
\* the election_report command has the three values of reporting_stats
HasStats(t) == pc[t] \in {"rep_house", "rep_senate", "rep_pres", "rep_send"}

\* C28: the values reporting_stats returned are the number of ballots of the
\* election, the number of its ACCEPTED ballots, and accepted/submitted x 100 to
\* within the rounding of the quotient, which is 0 when there is no ballot
C28_ReportingStats ==
    \A t \in Tasks :
       HasStats(t) =>
         LET l == local[t]
             mine == SelectSeq(ballots, LAMBDA b : b.election_id = l.election_id)
         IN  /\ l.submitted = Len(mine)
             /\ l.accepted = Len(AcceptedOnly(mine))
             /\ 0 <= l.pct /\ l.pct <= 100 * PctScale
             /\ l.submitted = 0 => l.pct = 0
             /\ l.submitted > 0 =>
                  Abs(l.pct * l.submitted - l.accepted * 100 * PctScale) <= 50 * l.submitted

\* one ballot ACCEPTED and one REJECTED: 2 submitted, 1 accepted, 50 per cent
C28_Witness ==
    /\ pc[1] = "rep_send"
    /\ Len(ballots) = 2
    /\ ballots[1].status = "ACCEPTED" /\ ballots[2].status = "REJECTED"
    /\ local[1].submitted = 2 /\ local[1].accepted = 1
    /\ local[1].pct = 50 * PctScale

\* ------------------------------------------- claims about failing notifications
\* C29: a submission that stores its ballot row stores it as PENDING and answers
\* the voter with the success message, whether or not the message to the ballot
\* channel could be sent; the log step of a revert leaves the election as the
\* UPDATE left it and answers that the revert is done, whether or not the line
\* reached the log channel
C29_NotificationFailureSwallowed ==
    [][\A t \in Tasks :
         /\ pc[t] = "submit_insert" /\ Len(ballots') = Len(ballots) + 1
              => /\ ballots'[Len(ballots')].status = "PENDING"
                 /\ resp' = "SUBMITTED"
         /\ pc[t] = "uncert_log" /\ pc'[t] # "uncert_log"
              => /\ elections' = elections
                 /\ resp' = "REVERTED"]_vars

\* ------------------------------------------------ claims about candidates
\* what add_candidate lets through to its INSERT, and so what is stored
ValidCandidate(c) ==
    /\ c.office \in {"HOUSE", "SENATE"} => c.state \in STATE_CODES
    /\ c.office = "HOUSE" => c.district >= 1
    /\ c.office \in {"SENATE", "PRESIDENT"} => c.district = NoDistrict

\* C30: every stored HOUSE or SENATE candidate has a recognized state code,
\* every stored HOUSE candidate a district of at least 1, every stored SENATE or
\* PRESIDENT candidate no district; an add_candidate call that answers with one
\* of the three input failures stores nothing and ends there, and a call that
\* goes on to its INSERT carries a valid candidate
C30_StoredCandidatesValid ==
    /\ [](\A c \in DOMAIN candidates : ValidCandidate(candidates[c]))
    /\ [][\A t \in Tasks :
            /\ pc[t] = "idle" /\ pc'[t] = "add_insert" => ValidCandidate(local'[t])
            /\ pc[t] = "idle"
                 /\ resp' \in {"STATE_REQUIRED", "INVALID_STATE", "DISTRICT_REQUIRED"}
                 => candidates' = candidates /\ pc'[t] = "idle"]_vars

\* a SENATE candidate entered with a district is stored without one, with the
\* state code in its stored spelling
C30_Witness ==
    /\ resp = "REGISTERED"
    /\ Len(candidates) = 1
    /\ candidates[1].office = "SENATE"
    /\ candidates[1].state = "TX"
    /\ candidates[1].district = NoDistrict

\* ------------------------------------------------ claims about registration
\* the candidates table holds a row with the (election, office, name) of l
Registered(l) ==
    \E c \in DOMAIN candidates :
       /\ candidates[c].election_id = l.election_id
       /\ candidates[c].office = l.office
       /\ candidates[c].rp_name = l.rp_name

\* C31: no two candidate rows have the same (election, office, name); an INSERT
\* for a triple that is stored answers that the candidate exists and adds no
\* row; no step changes or removes a stored candidate
C31_CandidateTripleUnique ==
    /\ [](\A c, d \in DOMAIN candidates :
            /\ candidates[c].election_id = candidates[d].election_id
            /\ candidates[c].office = candidates[d].office
            /\ candidates[c].rp_name = candidates[d].rp_name
            => c = d)
    /\ [][/\ \A t \in Tasks :
               pc[t] = "add_insert" /\ pc'[t] # "add_insert" /\ Registered(local[t])
                 => candidates' = candidates /\ resp' \in {"CANDIDATE_EXISTS", "ERROR"}
          /\ \A c \in DOMAIN candidates :
               c \in DOMAIN candidates' /\ candidates'[c] = candidates[c]]_vars

\* House candidate A was registered as DEM in district 1; the registration of
\* House candidate A as REP in district 2, which had passed its checks before,
\* has been turned down
C31_Witness ==
    /\ resp = "CANDIDATE_EXISTS"
    /\ Len(candidates) = 1
    /\ candidates[1].office = "HOUSE" /\ candidates[1].rp_name = "A"
    /\ candidates[1].party = "DEM" /\ candidates[1].district = 1

\* ---------------------------------------------------- claims about elections
\* C32: an election that appears in the table appears with status DRAFT, from a
\* begin_election that answers that it was created; a begin_election for an
\* identifier that exists answers that the election exists and changes no
\* election; no step removes an election or changes its type or its office flags
C32_CreateOnceAndFixed ==
    [][/\ \A e \in ElectionIds :
            /\ e \notin DOMAIN elections /\ e \in DOMAIN elections'
                 => elections'[e].status = "DRAFT" /\ resp' = "CREATED"
            /\ e \in DOMAIN elections
                 => /\ e \in DOMAIN elections'
                    /\ elections'[e].election_type = elections[e].election_type
                    /\ elections'[e].include_house = elections[e].include_house
                    /\ elections'[e].include_senate = elections[e].include_senate
                    /\ elections'[e].include_pres = elections[e].include_pres
       /\ \A t \in Tasks :
            /\ begin_election(t) /\ (\A e \in ElectionIds : Exists(e))
                 => resp' = "ELECTION_EXISTS" /\ elections' = elections
            /\ resp' = "ELECTION_EXISTS" => elections' = elections]_vars

\* an election with open polls exists and a further begin_election for its
\* identifier has been turned down
C32_Witness ==
    /\ resp = "ELECTION_EXISTS"
    /\ "E1" \in DOMAIN elections
    /\ elections["E1"].status = "OPEN"

\* ------------------------------------- claims about reads that are interleaved
\* the ballot tables the election can have had at one instant, as far as the
\* queries can tell: the first n stored ballots, each in some status
Instants ==
    UNION { { [ i \in 1..n |-> [ballots[i] EXCEPT !.status = st[i]] ] :
              st \in [1..n -> {"PENDING", "ACCEPTED", "REJECTED"}] } :
            n \in 0..Len(ballots) }

\* the row holds the two counts and the office snapshots of the ballot table bs
RowOfInstant(row, l, bs) ==
    /\ row.submitted_ballots = CountSubmitted(bs, l.election_id)
    /\ row.accepted_ballots = CountAccepted(bs, l.election_id)
    /\ \E k \in 0..Len(candidates) :
         LET cs == SubSeq(candidates, 1, k) IN
         /\ l.include_house =>
              row.house_snapshot = snapshot_office(bs, cs, l.election_id, "HOUSE")
         /\ l.include_senate =>
              row.senate_snapshot = snapshot_office(bs, cs, l.election_id, "SENATE")
         /\ l.include_pres =>
              row.pres_snapshot = snapshot_office(bs, cs, l.election_id, "PRESIDENT")

\* C33: the row a certify upsert writes holds the submitted count, the accepted
\* count and the results of every included office of one and the same ballot
\* table, also when reviews run between the reads of the certify
C33_SnapshotOfOneInstant ==
    [][\A t \in Tasks :
         pc[t] = "cert_upsert" /\ pc'[t] = "cert_flip" =>
           \E bs \in Instants :
              RowOfInstant(certifications'[local[t].election_id], local[t], bs)]_vars

\* C34: the values reporting_stats returns have accepted <= submitted and a
\* percentage between 0 and 100, also when ballots are submitted and accepted
\* between its two COUNT queries
C34_StatsWithinRange ==
    \A t \in Tasks :
       HasStats(t) =>
         /\ local[t].accepted <= local[t].submitted
         /\ 0 <= local[t].pct /\ local[t].pct <= 100 * PctScale

\* C35: every caller that ensure_db_pool has returned a pool to holds a pool on
\* which ensure_schema has run to its end: not one whose ensure_schema is still
\* running under the lock, and not one whose ensure_schema raised
C35_PoolOnlyAfterSchema ==
    \A t \in Tasks : pc[t] = "has_pool" => local[t].pool \in schema_pools

\* ------------------------------------------- claims about the results message
\* results_channel[i] is a message that was sent new and that the election row
\* neither names nor is about to name, and that no later message was sent in
\* place of (by a call that had read its id and found it gone)
StrayPost(i) ==
    LET m == results_channel[i] IN
    /\ m.kind = "post"
    /\ reporting[m.election_id].results_message_id # m.message_id
    /\ ~\E t \in Tasks : /\ pc[t] = "au_message_id"
                          /\ local[t].election_id = m.election_id
                          /\ local[t].msg_id = m.message_id
    /\ ~\E j \in DOMAIN results_channel :
           /\ results_channel[j].kind = "post"
           /\ results_channel[j].election_id = m.election_id
           /\ results_channel[j].msg_id = m.message_id

\* C36: an election has one live results message: every message sent new is
\* the one results_message_id names (or is being written there), or was found
\* gone by the call that sent its successor, also with concurrent triggers
C36_OneLiveResultsMessage ==
    \A i \in DOMAIN results_channel : ~StrayPost(i)

\* ------------------------------------------- claims about stored selections
\* the candidate ids ballot b stores for the office
ChoicesOf(b, office) ==
    IF office = "HOUSE" THEN Range(b.house_choices)
    ELSE IF office = "SENATE" THEN Range(b.senate_choices)
    ELSE IF b.pres_choice = NoId THEN {} ELSE {b.pres_choice}

\* the election includes the office
Includes(e, office) ==
    IF office = "HOUSE" THEN e.include_house
    ELSE IF office = "SENATE" THEN e.include_senate
    ELSE e.include_pres

\* the (ballot, position) pairs the ACCEPTED ballots of E1 store for the office
StoredSelections(office) ==
    { <<i, k>> \in (DOMAIN ballots) \X (1..HOUSE_MAX_PICKS) :
        /\ ballots[i].election_id = "E1"
        /\ ballots[i].status = "ACCEPTED"
        /\ IF office = "PRESIDENT" THEN k = 1 /\ ballots[i].pres_choice # NoId
           ELSE IF office = "HOUSE" THEN k \in DOMAIN ballots[i].house_choices
           ELSE k \in DOMAIN ballots[i].senate_choices }

\* C37: every id a stored ballot holds for an office is a stored candidate of
\* the ballot's election and of that office; a ballot holds no id for an office
\* its election does not include; and office_results counts every selection of
\* the ACCEPTED ballots (its total is their number)
C37_SelectionsJoin ==
    /\ \A i \in DOMAIN ballots, office \in Offices :
         LET b == ballots[i] IN
         /\ b.election_id \in DOMAIN elections
         /\ \A c \in ChoicesOf(b, office) :
              /\ c \in DOMAIN candidates
              /\ candidates[c].election_id = b.election_id
              /\ candidates[c].office = office
         /\ ~Includes(elections[b.election_id], office) => ChoicesOf(b, office) = {}
    /\ \A office \in Offices : Live(office).total = Cardinality(StoredSelections(office))

\* an ACCEPTED ballot with one Senate selection, counted as one Senate vote
C37_Witness ==
    /\ Len(ballots) = 1
    /\ ballots[1].status = "ACCEPTED"
    /\ ballots[1].senate_choices = <<1>>
    /\ candidates[1].office = "SENATE"
    /\ Live("SENATE").total = 1

\* ------------------------------------------------ claims about the queue's progress
\* ballot ids the bounded store can hold
BallotIds == 1..(MaxTabBallots + NumVoters)

\* ballot i is stored and PENDING
IsPending(i) == i \in DOMAIN ballots /\ ballots[i].status = "PENDING"

\* the PENDING ballots submitted before ballot i
OlderPending(i) == { j \in DOMAIN ballots : j < i /\ ballots[j].status = "PENDING" }

\* C38: when the reviewers keep asking for the next pending ballot and resolve
\* what they are shown, every PENDING ballot is shown to a reviewer and gets
\* reviewed, whatever is submitted after it; a ballot leaves PENDING only
\* through a reviewer who was shown it; the ballot a reviewer is shown has no
\* PENDING ballot before it, and no submission adds a PENDING ballot before one
\* that is waiting
C38_EveryPendingReviewed ==
    /\ \A i \in BallotIds :
         IsPending(i) ~> (i \in DOMAIN ballots /\ ballots[i].status # "PENDING")
    /\ \A i \in BallotIds :
         IsPending(i) ~> (\E t \in Tasks : /\ pc[t] \in {"review", "modal"}
                                            /\ local[t].ballot_id = i)
    /\ [][\A i \in BallotIds :
            IsPending(i) /\ ~IsPending(i)' =>
              \E t \in Tasks : /\ pc[t] \in {"review", "modal"}
                                /\ local[t].ballot_id = i
                                /\ pc'[t] = "idle"]_vars
    /\ [][/\ \A t \in Tasks :
               pc[t] = "idle" /\ pc'[t] = "review" => OlderPending(local'[t].ballot_id) = {}
          /\ \A i \in BallotIds :
               IsPending(i) /\ IsPending(i)' => OlderPending(i)' \subseteq OlderPending(i)]_vars

\* two ballots were pending, a third was submitted after them, and all three
\* have been reviewed
C38_Witness ==
    /\ Len(ballots) = MaxTabBallots + 1
    /\ ballots[Len(ballots)].voter_id = 1
    /\ \A i \in DOMAIN ballots : ballots[i].status # "PENDING"

\* ------------------------------------------- claims about the report's content
\* the newest post or edit for election e shows its stored status and counts
ReportCurrent(e) ==
    LET mine == SelectSeq(results_channel, LAMBDA m : m.election_id = e) IN
    /\ mine # << >>
    /\ mine[Len(mine)].status = elections[e].status
    /\ mine[Len(mine)].submitted = CountSubmitted(ballots, e)
    /\ mine[Len(mine)].accepted = CountAccepted(ballots, e)

\* C39: a handler's refresh call that the throttle turns down while no other
\* handler is running (so that nothing is left to refresh the report once the
\* changes stop) leaves a report that shows the election's status and counts
C39_ThrottledOnlyWhenCurrent ==
    [][\A t \in Tasks, e \in ElectionIds :
         /\ pc[t] = "au_throttle" /\ pc'[t] = "idle"
         /\ local[t].election_id = e
         /\ \A u \in Tasks \ {t} : pc[u] \in {"idle", "review"}
         => ReportCurrent(e)']_vars
====
